---- MODULE Spec2Model ----
(***************************************************************************)
(* ThoughtNebula: the App component (generation run, single-flight search  *)
(* scheduler, direct point selection) and the Scene component (ellipsoid   *)
(* fit, camera focus effects, frame loop) as one state machine.            *)
(*                                                                         *)
(* Lengths are fixed-point integers in hundredths of a scene unit.  Scores *)
(* (cosine similarities) are integers in percent, -100..100.  A value of   *)
(* type T | null is a sequence: <<>> for null and <<x>> for x.             *)
(***************************************************************************)
EXTENDS Integers, Sequences, FiniteSets, TLC

\* ------------------------------------------------------------------ bounds
\* Number of user and environment input events in one behaviour.
MaxEvents == 5
\* Number of idle rotation steps of the brain in one behaviour.
MaxRotation == 1
\* Number of camera animation frames in one behaviour of Spec.
MaxFrames == 2
\* Number of times the muted prop changes in one behaviour of MusicSpec
MaxToggles == 3
\* The frame limit that stands for none: the frames are then not counted.
NoLimit == 1000000

\* ----------------------------------------------------------- small helpers
None == <<>>
Some(x) == <<x>>
Abs(n) == IF n < 0 THEN -n ELSE n
Sgn(n) == IF n < 0 THEN -1 ELSE IF n > 0 THEN 1 ELSE 0
Min2(a, b) == IF a < b THEN a ELSE b
Max2(a, b) == IF a > b THEN a ELSE b
\* a / b rounded to the nearest integer, halves away from zero (b > 0).
DivRound(a, b) == Sgn(a) * ((Abs(a) + b \div 2) \div b)
\* a / b rounded away from zero (b > 0).
DivAway(a, b) == Sgn(a) * ((Abs(a) + b - 1) \div b)
\* n || 1
NonZero(n) == IF n = 0 THEN 1 ELSE n
\* THREE.MathUtils.clamp
Clamp(v, lo, hi) == Max2(lo, Min2(hi, v))

RECURSIVE ISqrtBin(_, _, _)
ISqrtBin(n, lo, hi) ==
  IF lo >= hi THEN lo
  ELSE LET mid == (lo + hi + 1) \div 2
       IN IF mid * mid <= n THEN ISqrtBin(n, mid, hi) ELSE ISqrtBin(n, lo, mid - 1)
\* floor(sqrt(n)) for 0 <= n < 2^31
ISqrt(n) == ISqrtBin(n, 0, 46340)

\* ------------------------------------------------------------ THREE.Vector3
Vec(x, y, z) == <<x, y, z>>
Zero3 == Vec(0, 0, 0)
VSub(a, b) == Vec(a[1] - b[1], a[2] - b[2], a[3] - b[3])
VAdd(a, b) == Vec(a[1] + b[1], a[2] + b[2], a[3] + b[3])
VLenSq(a) == a[1] * a[1] + a[2] * a[2] + a[3] * a[3]
VLength(a) == ISqrt(VLenSq(a))
\* Vector3.multiplyScalar with the scalar given as the fraction num / den
VScale(a, num, den) ==
  Vec(DivRound(a[1] * num, den), DivRound(a[2] * num, den), DivRound(a[3] * num, den))
\* Vector3.normalize().multiplyScalar(len): divideScalar(length() || 1), then scale
VWithLength(a, len) == VScale(a, len, NonZero(VLength(a)))
\* Vector3.lerp(target, 0.08): each component moves 8% of its remaining way.  On the
\* fixed-point grid the step is rounded away from zero, so that a component that
\* has not arrived always moves, as the floating-point step does.
LerpNum == 8
LerpDen == 100
VLerp(a, t) ==
  Vec(a[1] + DivAway((t[1] - a[1]) * LerpNum, LerpDen),
      a[2] + DivAway((t[2] - a[2]) * LerpNum, LerpDen),
      a[3] + DivAway((t[3] - a[3]) * LerpNum, LerpDen))
\* Vector3.distanceTo(b) > eps, decided without overflow
VDistGreater(a, b, eps) ==
  LET d == VSub(a, b)
  IN \/ Abs(d[1]) > eps \/ Abs(d[2]) > eps \/ Abs(d[3]) > eps
     \/ VLenSq(d) > eps * eps

\* ------------------------------------------------------------------ strings
\* The texts the model types: a line or query is a TLA+ string, and the two
\* string functions the code uses are given by what they return on them.
\* String.prototype.trim
Trim(s) ==
  CASE s = " " -> ""
    [] s = "  " -> ""
    [] s = " a" -> "a"
    [] s = " s2 " -> "s2"
    [] OTHER -> s
\* String.prototype.length (characters)
StrLength(s) ==
  CASE s = "" -> 0
    [] s = " " -> 1
    [] s = "  " -> 2
    [] s = "a" -> 1
    [] s = " a" -> 2
    [] s = "ab" -> 2
    [] s = "s1" -> 24
    [] s = "s2" -> 40
    [] s = " s2 " -> 42
    [] s = "s3" -> 100
    [] s = "s4" -> 130
    [] OTHER -> 8

\* The query texts the user types into the search box.
Queries == {"", " ", "a", "ab"}
\* The contents of the dataset textarea at a Generate click, as its lines
\* (textInput.split("\n")).
TextInputs ==
  { <<"", " ">>,
    <<"s1", "  ", "s2">>,
    <<"s1", " s2 ", "", "s3">>,
    <<"s3", "s1", "s3", "s4">> }

\* --------------------------------------------------- embedding subsystem
\* embed() returns one vector per text.  A vector is a direction, one of
\* twelve at 30 degree steps; cos_sim of two vectors is the cosine of their
\* angle, in percent.
EmbeddingOf(text) ==
  CASE text = "s1" -> 0
    [] text = "s2" -> 2
    [] text = "s3" -> 9
    [] text = "s4" -> 10
    [] text = "a" -> 0
    [] text = "ab" -> 2
    [] OTHER -> 4
cos_sim(a, b) ==
  LET k == (a - b) % 12
  IN CASE k = 0 -> 100
       [] k \in {1, 11} -> 87
       [] k \in {2, 10} -> 50
       [] k \in {3, 9} -> 0
       [] k \in {4, 8} -> -50
       [] k \in {5, 7} -> -87
       [] OTHER -> -100

\* ----------------------------------------------------- sequence helpers
Reverse(s) == [i \in 1..Len(s) |-> s[Len(s) + 1 - i]]
\* Array.prototype.find on texts: the first element with that text, or null
FindByText(points, text) ==
  LET hits == {i \in 1..Len(points) : points[i].text = text}
  IN IF hits = {} THEN None
     ELSE Some(points[CHOOSE i \in hits : \A j \in hits : i <= j])

\* --------------------------------------------------- container geometry
\* Bounding box of the loaded brain mesh (Box3.setFromObject), in mesh units.
BrainBoxMin == Vec(-100, -80, -90)
BrainBoxMax == Vec(100, 80, 90)
Max3(v) == Max2(v[1], Max2(v[2], v[3]))

\* brainPlacement: offset and halfSize in hundredths
brainPlacement(brainObject) ==
  IF ~brainObject
  THEN [offset |-> Zero3, halfSize |-> Vec(5500, 5500, 5500)]
  ELSE LET size == VSub(BrainBoxMax, BrainBoxMin)
           sum == VAdd(BrainBoxMax, BrainBoxMin)
           maxDim == NonZero(Max3(size))
       IN [offset |-> VScale(sum, -5000, maxDim),
           halfSize |-> VScale(size, 5000, maxDim)]

\* innerAxes = halfSize * innerScale (0.66) * innerShapeAdjust (1.30, 0.75, 1.2)
innerAxes(brainObject) ==
  LET h == brainPlacement(brainObject).halfSize
  IN Vec(DivRound(h[1] * 66 * 130, 10000),
         DivRound(h[2] * 66 * 75, 10000),
         DivRound(h[3] * 66 * 120, 10000))
innerAxesMargin(brainObject) == VScale(innerAxes(brainObject), 95, 100)
\* innerCenter = -offset + innerOffset (-2, 18, 0)
innerCenter(brainObject) ==
  VAdd(VScale(brainPlacement(brainObject).offset, -1, 1), Vec(-200, 1800, 0))

\* computeDefaultView: the default camera pose.  fov is 45 degrees, and
\* 1 / tan(22.5 degrees) = 2.41421.
\* baseDistance = maxDim / 2 / tan(fov / 2); distance = baseDistance * 1.35 on
\* a mobile device and * 0.85 otherwise
viewDistance(maxDim, isMobile) ==
  DivRound(DivRound((maxDim \div 2) * 241421, 100000)
             * (IF isMobile THEN 135 ELSE 85), 100)
\* The pose for a brain centred at center and maxDim wide
viewPose(center, maxDim, isMobile) ==
  [pos |-> Vec(center[1] + DivRound(maxDim * 25, 100),
               center[2] + DivRound(maxDim * 12, 100),
               center[3] + viewDistance(maxDim, isMobile)),
   target |-> center]
computeDefaultView(brainObject, isMobile) ==
  viewPose(VScale(brainPlacement(brainObject).offset, -1, 1),
           Max3(brainPlacement(brainObject).halfSize) * 2, isMobile)

\* ----------------------------------------------------------- ellipsoid fit
\* seededRandom(seed) = frac(sin(seed * 12.9898 + 78.233) * 43758.5453), in
\* ten-thousandths, for the seeds index*3, index*3+1, index*3+2 and index*7.
seededRandom(seed) ==
  CASE seed = 0 -> 1829 [] seed = 1 -> 7401 [] seed = 2 -> 5644
    [] seed = 3 -> 4547 [] seed = 4 -> 2724 [] seed = 5 -> 8234
    [] seed = 6 -> 7528 [] seed = 7 -> 5038 [] seed = 8 -> 5234
    [] seed = 9 -> 5218 [] seed = 10 -> 199 [] seed = 11 -> 5923
    [] seed = 12 -> 6111 [] seed = 13 -> 4013 [] seed = 14 -> 8491
    [] seed = 15 -> 3408 [] seed = 16 -> 4224 [] seed = 17 -> 2378
    [] seed = 21 -> 8520 [] seed = 28 -> 9119 [] seed = 35 -> 1146
    [] OTHER -> 5000

\* Box3.setFromPoints over the points' positions
BoxMin(points) ==
  Vec(CHOOSE m \in {points[i].position[1] : i \in 1..Len(points)} :
        \A j \in 1..Len(points) : m <= points[j].position[1],
      CHOOSE m \in {points[i].position[2] : i \in 1..Len(points)} :
        \A j \in 1..Len(points) : m <= points[j].position[2],
      CHOOSE m \in {points[i].position[3] : i \in 1..Len(points)} :
        \A j \in 1..Len(points) : m <= points[j].position[3])
BoxMax(points) ==
  Vec(CHOOSE m \in {points[i].position[1] : i \in 1..Len(points)} :
        \A j \in 1..Len(points) : m >= points[j].position[1],
      CHOOSE m \in {points[i].position[2] : i \in 1..Len(points)} :
        \A j \in 1..Len(points) : m >= points[j].position[2],
      CHOOSE m \in {points[i].position[3] : i \in 1..Len(points)} :
        \A j \in 1..Len(points) : m >= points[j].position[3])

\* The normalized position of point number index (0-based) before the 0.97
\* scaling, in ten-thousandths: centred on the box, divided by maxDim / 2.
\* (p - center) / (maxDim / 2) = (2p - (lo + hi)) / maxDim, maxDim being the
\* largest side of the box (|| 1)
NormalizeInBox(p, lo, hi) ==
  VScale(VSub(VScale(p, 2, 1), VAdd(lo, hi)), 10000, NonZero(Max3(VSub(hi, lo))))
NormalizedRaw(points, index) ==
  NormalizeInBox(points[index + 1].position, BoxMin(points), BoxMax(points))

\* The push of a near-origin point without the clamp to radius 0.95
ClampAndPushUnclamped(normalized, index) ==
  IF VLenSq(normalized) < 500 * 500
  THEN VWithLength(Vec(seededRandom(index * 3) * 2 - 10000,
                       seededRandom(index * 3 + 1) * 2 - 10000,
                       seededRandom(index * 3 + 2) * 2 - 10000),
                   500 + DivRound(seededRandom(index * 7), 10))
  ELSE normalized

\* The normalized position after the clamp to radius 0.95 and the push of a
\* near-origin point to a radius in [0.05, 0.15].
ClampAndPush(normalized, index) ==
  IF VLenSq(normalized) < 500 * 500
  THEN VWithLength(Vec(seededRandom(index * 3) * 2 - 10000,
                       seededRandom(index * 3 + 1) * 2 - 10000,
                       seededRandom(index * 3 + 2) * 2 - 10000),
                   500 + DivRound(seededRandom(index * 7), 10))
  ELSE IF VLenSq(normalized) > 9500 * 9500
       THEN VWithLength(normalized, 9500)
       ELSE normalized
NormalizedFit(points, index) == ClampAndPush(NormalizedRaw(points, index), index)

\* innerCenter + normalized * innerAxesMargin, componentwise
IntoEllipsoid(n, m, c) ==
  Vec(DivRound(n[1] * m[1], 10000) + c[1],
      DivRound(n[2] * m[2], 10000) + c[2],
      DivRound(n[3] * m[3], 10000) + c[3])

\* The fit with the push seeded by the index and the size of the point set
FitPointsOfSeededBySize(points, brainObject) ==
  IF ~brainObject THEN points
  ELSE IF Len(points) = 0 THEN points
  ELSE [i \in 1..Len(points) |->
          [points[i] EXCEPT !.position =
             IntoEllipsoid(VScale(ClampAndPush(NormalizedRaw(points, i - 1),
                                               i - 1 + Len(points)), 97, 100),
                           innerAxesMargin(brainObject), innerCenter(brainObject))]]

\* The useMemo body of fitPoints: galaxyPoints mapped into the inner ellipsoid
FitPointsOf(points, brainObject) ==
  IF ~brainObject THEN points
  ELSE IF Len(points) = 0 THEN points
  ELSE [i \in 1..Len(points) |->
          [points[i] EXCEPT !.position =
             IntoEllipsoid(VScale(NormalizedFit(points, i - 1), 97, 100),
                           innerAxesMargin(brainObject), innerCenter(brainObject))]]

\* The sessions the model runs: device class, embedding backend (batch size 4
\* on webgpu, 1 otherwise), what the engine's sort does with an inconsistent
\* comparator, and whether the brain mesh is available.
Profiles ==
  { [isMobile |-> FALSE, batch_size |-> 4, engineReverses |-> FALSE, brainObject |-> TRUE],
    [isMobile |-> TRUE, batch_size |-> 1, engineReverses |-> TRUE, brainObject |-> TRUE],
    [isMobile |-> FALSE, batch_size |-> 1, engineReverses |-> FALSE, brainObject |-> FALSE] }

\* ---------------------------------------------------------------- state
VARIABLES
  \* session profile, fixed at construction
  isMobile,            \* matchMedia / userAgent test
  batch_size,          \* 4 on webgpu, 1 otherwise
  engineReverses,      \* what the engine's sort does with the sentences
  brainObject,         \* whether the brain mesh is available to the Scene
  \* App state
  isReady,             \* useModel().isReady
  galaxyPoints,        \* sequence of [text, position, embedding]
  searchQuery,
  searchResults,       \* sequence of [text, position, embedding, similarity]
  isGenerating,
  generationStatus,
  lastQueryEmbedding,  \* null or a vector
  isSearching,
  pendingQuery,        \* null or a query text
  \* asynchronous work in progress
  searchCalls,         \* embed calls of processQueue not yet settled
  generation,          \* the suspended handleGenerateGalaxy run, or null
  umap,                \* the last UMAP built and fitted, or null
  \* Scene state
  cameraPosition,      \* camera.position
  controlsTarget,      \* controlsRef.current.target
  controlsEnabled,     \* controlsRef.current.enabled
  shouldAnimate,
  cameraTargetPos,
  controlsTargetLookAt,
  defaultView,         \* defaultView.current: null or [pos, target]
  rotationY,           \* brainGroupRef.current.rotation.y in steps of 0.003
  fitPoints,           \* the memoized fitPoints of the last render
  \* BackgroundMusic state
  muted,               \* the muted prop (isMusicMuted of App)
  musicMounted,        \* whether the component is mounted
  audioMuted,          \* audio.muted
  audioVolume,         \* audio.volume in hundredths
  musicEffects,        \* the runs of the effect so far, in order: the muted
                       \* value of the run, its play promise, and whether
                       \* its cleanup has run
  clickListeners,      \* the runs whose playAudio is a click listener of the
                       \* document, in the order they were added
  \* bookkeeping for the properties
  limits,              \* the behaviour's bounds: [events, frames]
  events,              \* input events so far
  frames,              \* animation frames so far
  dropped,             \* queries overwritten in the pending slot, never run
  lastRun,             \* the query text of the scheduler's latest run
  preTransition,       \* the pose when shouldAnimate last became true, or null
  last                 \* what the last step was

appVars ==
  <<isReady, galaxyPoints, searchQuery, searchResults, isGenerating,
    generationStatus, lastQueryEmbedding, isSearching, pendingQuery,
    searchCalls, generation, umap>>
sceneVars ==
  <<cameraPosition, controlsTarget, controlsEnabled, shouldAnimate,
    cameraTargetPos, controlsTargetLookAt, defaultView, rotationY, fitPoints>>
musicVars ==
  <<muted, musicMounted, audioMuted, audioVolume, musicEffects, clickListeners>>
\* What no handler of App and no effect of the Scene changes: the session
\* profile and the BackgroundMusic component
profileVars == <<isMobile, batch_size, engineReverses, brainObject, musicVars>>
vars ==
  <<profileVars, appVars, sceneVars, limits, events, frames, dropped, lastRun,
    preTransition, last>>

\* ------------------------------------------------------------- the Scene
\* The camera and controls as one record, so that the effects compose.
Cam ==
  [position |-> cameraPosition, target |-> controlsTarget,
   enabled |-> controlsEnabled, shouldAnimate |-> shouldAnimate,
   cameraTargetPos |-> cameraTargetPos,
   controlsTargetLookAt |-> controlsTargetLookAt,
   defaultView |-> defaultView]

\* The props of one render of the Scene.
Props(fit, results, query) ==
  [fitPoints |-> fit, searchResults |-> results, searchQuery |-> query]

minFocusDist == 600
maxFocusDist == 2000
\* distToTarget > 0.01
FocusEpsilon == 1

\* mapLinear of the similarity as it comes, without the clamp
baseDistUnclamped(similarity) ==
  maxFocusDist + DivRound(similarity * (minFocusDist - maxFocusDist), 100)

\* desiredDist of the focus effect for a top result
baseDist(similarity) ==
  \* mapLinear(clamp(similarity, 0, 1), 0, 1, maxFocusDist, minFocusDist)
  maxFocusDist
    + DivRound(Clamp(similarity, 0, 100) * (minFocusDist - maxFocusDist), 100)
\* The adjustment applied whatever the device
distanceAdjustNumAnyDevice(text, mobile) ==
  200 + Clamp(StrLength(text) - 40, 0, 80)

\* distanceAdjust = isMobile ? 1 + 0.4 * clamp((length - 40) / 80, 0, 1) : 1,
\* as the fraction distanceAdjustNum / 200
distanceAdjustNum(text, mobile) ==
  IF mobile THEN 200 + Clamp(StrLength(text) - 40, 0, 80) ELSE 200
desiredDist(topResult, mobile) ==
  DivRound(baseDist(topResult.similarity) * distanceAdjustNum(topResult.text, mobile), 200)

\* useEffect [fitPoints.length, ...]: re-frame when the number of points changes
ReframeEffect(cam, props, mobile, brain) ==
  IF Len(props.fitPoints) = 0 THEN cam
  ELSE LET view == computeDefaultView(brain, mobile)
       IN [cam EXCEPT !.position = view.pos, !.target = view.target,
                      !.defaultView = Some(view)]

\* The focus effect going on without a matching point, focusing the origin
FocusEffectWithoutMatchCheck(cam, props, mobile, brain) ==
  IF Len(props.searchResults) = 0 \/ props.searchResults[1].text = ""
  THEN IF cam.defaultView # None
       THEN [cam EXCEPT !.position = cam.defaultView[1].pos,
                        !.target = cam.defaultView[1].target]
       ELSE cam
  ELSE LET topResult == props.searchResults[1]
           matchingFitPoint ==
             FindByText(props.fitPoints, topResult.text)
           topResultPos == IF matchingFitPoint = None THEN Zero3
                           ELSE matchingFitPoint[1].position
           newOffset == VWithLength(VSub(cam.position, cam.target),
                                    desiredDist(topResult, mobile))
       IN [cam EXCEPT !.cameraTargetPos = VAdd(topResultPos, newOffset),
                      !.controlsTargetLookAt = topResultPos,
                      !.shouldAnimate = TRUE]

\* useEffect [searchResults, camera, fitPoints, invalidate]: focus the top result
FocusEffect(cam, props, mobile, brain) ==
  IF Len(props.searchResults) = 0 \/ props.searchResults[1].text = ""
  THEN IF cam.defaultView # None
       THEN [cam EXCEPT !.position = cam.defaultView[1].pos,
                        !.target = cam.defaultView[1].target]
       ELSE cam
  ELSE LET topResult == props.searchResults[1]
           matchingFitPoint ==
             FindByText(props.fitPoints, topResult.text)
       IN IF matchingFitPoint = None THEN cam
          ELSE LET topResultPos == matchingFitPoint[1].position
                   newOffset == VWithLength(VSub(cam.position, cam.target),
                                            desiredDist(topResult, mobile))
               IN [cam EXCEPT !.cameraTargetPos = VAdd(topResultPos, newOffset),
                              !.controlsTargetLookAt = topResultPos,
                              !.shouldAnimate = TRUE]

\* The effect restoring the pose only
NoResultsEffectKeepsAnimating(cam, props) ==
  IF Len(props.searchResults) = 0 /\ cam.defaultView # None
  THEN [cam EXCEPT !.position = cam.defaultView[1].pos,
                   !.target = cam.defaultView[1].target]
  ELSE cam

\* useEffect [searchResults.length, ...]: no results, back to the default view
NoResultsEffect(cam, props) ==
  IF Len(props.searchResults) = 0 /\ cam.defaultView # None
  THEN [cam EXCEPT !.shouldAnimate = FALSE, !.enabled = TRUE,
                   !.position = cam.defaultView[1].pos,
                   !.target = cam.defaultView[1].target]
  ELSE cam

\* frameBrain
frameBrain(cam, mobile, brain) ==
  LET view == computeDefaultView(brain, mobile)
  IN [cam EXCEPT !.position = view.pos, !.target = view.target,
                 !.defaultView = Some(view)]

\* The effect stopping the animation only
QueryClearedEffectKeepsPose(cam, props, mobile, brain) ==
  IF Trim(props.searchQuery) = ""
  THEN [cam EXCEPT !.shouldAnimate = FALSE, !.enabled = TRUE]
  ELSE cam

\* useEffect [searchQuery, frameBrain]: query cleared, back to the default view
QueryClearedEffect(cam, props, mobile, brain) ==
  IF Trim(props.searchQuery) = ""
  THEN LET c == [cam EXCEPT !.shouldAnimate = FALSE]
       IN IF c.defaultView # None
          THEN [c EXCEPT !.enabled = TRUE,
                         !.position = c.defaultView[1].pos,
                         !.target = c.defaultView[1].target]
          ELSE frameBrain(c, mobile, brain)
  ELSE cam

\* One commit of the Scene: the effects whose dependencies differ between the
\* previous render (old) and this one (new), in the order they are declared.
\* resultsSet / pointsSet: the state was set to a new array in between.
RunIf(changed, after, cam) == IF changed THEN after ELSE cam
ReframeStep(cam, old, new, mobile, brain) ==
  RunIf(Len(old.fitPoints) # Len(new.fitPoints),
        ReframeEffect(cam, new, mobile, brain), cam)
FocusStep(cam, new, resultsSet, pointsSet, mobile, brain) ==
  RunIf(resultsSet \/ pointsSet, FocusEffect(cam, new, mobile, brain), cam)
NoResultsStep(cam, old, new) ==
  RunIf(Len(old.searchResults) # Len(new.searchResults), NoResultsEffect(cam, new), cam)
QueryClearedStep(cam, old, new, mobile, brain) ==
  RunIf(old.searchQuery # new.searchQuery,
        QueryClearedEffect(cam, new, mobile, brain), cam)
SceneCommit(cam, old, new, resultsSet, pointsSet, mobile, brain) ==
  QueryClearedStep(
    NoResultsStep(
      FocusStep(ReframeStep(cam, old, new, mobile, brain),
                new, resultsSet, pointsSet, mobile, brain),
      old, new),
    old, new, mobile, brain)

\* The frame that ends the animation without enabling the controls again
FrameCameraKeepsControlsOff(cam) ==
  IF cam.shouldAnimate
  THEN IF VDistGreater(cam.position, cam.cameraTargetPos, FocusEpsilon)
       THEN [cam EXCEPT !.enabled = FALSE,
                        !.position = VLerp(cam.position, cam.cameraTargetPos),
                        !.target = VLerp(cam.target, cam.controlsTargetLookAt)]
       ELSE [cam EXCEPT !.position = cam.cameraTargetPos,
                        !.target = cam.controlsTargetLookAt,
                        !.shouldAnimate = FALSE,
                        !.enabled = FALSE]
  ELSE cam

\* The frame that takes the camera for arrived within one scene unit
FrameCameraSnapsEarly(cam) ==
  IF cam.shouldAnimate
  THEN IF VDistGreater(cam.position, cam.cameraTargetPos, 100 * FocusEpsilon)
       THEN [cam EXCEPT !.enabled = FALSE,
                        !.position = VLerp(cam.position, cam.cameraTargetPos),
                        !.target = VLerp(cam.target, cam.controlsTargetLookAt)]
       ELSE [cam EXCEPT !.position = cam.cameraTargetPos,
                        !.target = cam.controlsTargetLookAt,
                        !.shouldAnimate = FALSE,
                        !.enabled = TRUE]
  ELSE cam

\* useFrame: the camera part of one frame
FrameCamera(cam) ==
  IF cam.shouldAnimate
  THEN IF VDistGreater(cam.position, cam.cameraTargetPos, FocusEpsilon)
       THEN [cam EXCEPT !.enabled = FALSE,
                        !.position = VLerp(cam.position, cam.cameraTargetPos),
                        !.target = VLerp(cam.target, cam.controlsTargetLookAt)]
       ELSE [cam EXCEPT !.position = cam.cameraTargetPos,
                        !.target = cam.controlsTargetLookAt,
                        !.shouldAnimate = FALSE,
                        !.enabled = TRUE]
  ELSE cam

\* ------------------------------------------------- the search scheduler
\* The refs and state the scheduler reads and writes, as one record.
\* dropped: the queries that were overwritten in the pending slot, never having
\* been run, since the scheduler was last idle (bookkeeping for the properties).
\* results / resultsSet: the value setSearchResults was last called with in the
\* running handler, and whether it was called (React applies the last one).
Sched ==
  [isSearching |-> isSearching, pendingQuery |-> pendingQuery,
   lastQueryEmbedding |-> lastQueryEmbedding, searchCalls |-> searchCalls,
   results |-> searchResults, resultsSet |-> FALSE, dropped |-> dropped,
   lastRun |-> lastRun]

\* What an effect run closes over: the isReady and galaxyPoints of its render.
Closure(ready, points) == [isReady |-> ready, galaxyPoints |-> points]

\* The insertion of a sort that puts an element ahead of its equals
RECURSIVE InsertBySimilarityUnstable(_, _)
InsertBySimilarityUnstable(sorted, r) ==
  IF sorted = <<>> THEN <<r>>
  ELSE IF r.similarity - Head(sorted).similarity >= 0
       THEN <<r>> \o sorted
       ELSE <<Head(sorted)>> \o InsertBySimilarityUnstable(Tail(sorted), r)

\* Array.prototype.sort((a, b) => b.similarity - a.similarity): stable, so an
\* element goes behind every element that does not compare greater than it.
RECURSIVE InsertBySimilarity(_, _)
InsertBySimilarity(sorted, r) ==
  IF sorted = <<>> THEN <<r>>
  ELSE IF r.similarity - Head(sorted).similarity > 0
       THEN <<r>> \o sorted
       ELSE <<Head(sorted)>> \o InsertBySimilarity(Tail(sorted), r)
RECURSIVE SortBySimilarity(_)
SortBySimilarity(rs) ==
  IF rs = <<>> THEN <<>>
  ELSE InsertBySimilarity(SortBySimilarity(SubSeq(rs, 1, Len(rs) - 1)), rs[Len(rs)])

WithSimilarity(point, sim) ==
  [text |-> point.text, position |-> point.position,
   embedding |-> point.embedding, similarity |-> sim]
\* The ranking without its sort
RankPointsUnsorted(points, queryEmbedding) ==
  [i \in 1..Len(points) |->
    WithSimilarity(points[i], cos_sim(queryEmbedding, points[i].embedding))]

\* galaxyPoints.map(similarity to the query).sort(descending)
RankPoints(points, queryEmbedding) ==
  SortBySimilarity([i \in 1..Len(points) |->
    WithSimilarity(points[i], cos_sim(queryEmbedding, points[i].embedding))])

\* processQueue keeping the last query vector on its immediate path
processQueueKeepsVector(c, s) ==
  IF s.isSearching \/ s.pendingQuery = None THEN s
  ELSE LET queryToRun == s.pendingQuery[1]
           s1 == [s EXCEPT !.isSearching = TRUE, !.pendingQuery = None,
                           !.lastRun = Some(queryToRun)]
       IN IF Trim(queryToRun) = "" \/ ~c.isReady \/ Len(c.galaxyPoints) = 0
          THEN [s1 EXCEPT !.results = <<>>, !.resultsSet = TRUE,
                          !.isSearching = FALSE]
          ELSE [s1 EXCEPT !.searchCalls = @ \cup
                            {[query |-> queryToRun, closure |-> c]}]

\* processQueue without the isSearching test of its first line
processQueueUnguarded(c, s) ==
  IF s.pendingQuery = None THEN s
  ELSE LET queryToRun == s.pendingQuery[1]
           s1 == [s EXCEPT !.isSearching = TRUE, !.pendingQuery = None,
                           !.lastRun = Some(queryToRun)]
       IN IF Trim(queryToRun) = "" \/ ~c.isReady \/ Len(c.galaxyPoints) = 0
          THEN [s1 EXCEPT !.results = <<>>, !.resultsSet = TRUE,
                          !.lastQueryEmbedding = None, !.isSearching = FALSE]
          ELSE [s1 EXCEPT !.searchCalls = @ \cup
                            {[query |-> queryToRun, closure |-> c]}]

\* processQueue, up to its await (or its return)
RECURSIVE processQueue(_, _)
processQueue(c, s) ==
  IF s.isSearching \/ s.pendingQuery = None THEN s
  ELSE LET queryToRun == s.pendingQuery[1]
           s1 == [s EXCEPT !.isSearching = TRUE, !.pendingQuery = None,
                           !.lastRun = Some(queryToRun)]
       IN IF Trim(queryToRun) = "" \/ ~c.isReady \/ Len(c.galaxyPoints) = 0
          THEN LET s2 == [s1 EXCEPT !.results = <<>>, !.resultsSet = TRUE,
                                    !.lastQueryEmbedding = None,
                                    !.isSearching = FALSE]
               IN IF s2.pendingQuery # None THEN processQueue(c, s2) ELSE s2
          ELSE [s1 EXCEPT !.searchCalls = @ \cup
                            {[query |-> queryToRun, closure |-> c]}]

\* The finally block without the run of the pending query
FinallyBlockLeavesPending(c, s) == [s EXCEPT !.isSearching = FALSE]

\* The finally block without the reset of isSearching
FinallyBlockKeepsFlag(c, s) ==
  IF s.pendingQuery # None THEN processQueue(c, s) ELSE s

\* The finally block of processQueue
FinallyBlock(c, s) ==
  LET s1 == [s EXCEPT !.isSearching = FALSE]
  IN IF s1.pendingQuery # None THEN processQueue(c, s1) ELSE s1

\* processQueue setting its results after its finally block has run
AfterEmbedAppliesLate(call, s) ==
  LET queryEmbedding == EmbeddingOf(call.query)
      s1 == FinallyBlock(call.closure, [s EXCEPT !.searchCalls = @ \ {call}])
  IN [s1 EXCEPT !.lastQueryEmbedding = Some(queryEmbedding),
                !.results = RankPoints(call.closure.galaxyPoints, queryEmbedding),
                !.resultsSet = TRUE]

\* processQueue from the return of its embed call to its end
AfterEmbed(call, s) ==
  LET queryEmbedding == EmbeddingOf(call.query)
      s1 == [s EXCEPT !.searchCalls = @ \ {call},
                      !.lastQueryEmbedding = Some(queryEmbedding),
                      !.results = RankPoints(call.closure.galaxyPoints, queryEmbedding),
                      !.resultsSet = TRUE]
  IN FinallyBlock(call.closure, s1)

\* processQueue from the throw of its embed call to its end
AfterEmbedThrows(call, s) ==
  FinallyBlock(call.closure, [s EXCEPT !.searchCalls = @ \ {call}])

\* The effect writing the pending slot only when it is empty
SearchEffectKeepsFirst(c, query, s) ==
  processQueue(c, [s EXCEPT !.pendingQuery = IF @ = None THEN Some(query) ELSE @,
                            !.dropped = IF ~s.isSearching THEN {} ELSE @])

\* useEffect [searchQuery, galaxyPoints, isReady, embed]
SearchEffect(c, query, s) ==
  processQueue(c, [s EXCEPT !.pendingQuery = Some(query),
                            !.dropped = IF ~s.isSearching THEN {}
                                        ELSE IF s.pendingQuery = None THEN @
                                        ELSE @ \cup {s.pendingQuery[1]}])

\* handlePointFocus
handlePointFocus(point, hasSimilarity, s) ==
  IF ~hasSimilarity /\ s.lastQueryEmbedding = None THEN s
  ELSE LET similarity ==
             IF hasSimilarity THEN point.similarity
             ELSE cos_sim(s.lastQueryEmbedding[1], point.embedding)
           focusedResult == WithSimilarity(point, similarity)
           others == SelectSeq(s.results, LAMBDA r : r.text # point.text)
       IN [s EXCEPT !.results = <<focusedResult>> \o others, !.resultsSet = TRUE]

\* A generation status and its number (a percentage or a count)
Status(text, n) == [text |-> text, n |-> n]
\* The record of a step: its handler, the handler's argument, and whether the
\* step called setSearchResults
Step(type, arg, resultsSet) == [type |-> type, arg |-> arg, resultsSet |-> resultsSet]

\* ---------------------------------------------------------- one React commit
\* A handler has run and left the App state (ready, points, query) and the
\* scheduler record s.  React renders once with the batched state; the Scene's
\* effects run; the App's search effect runs when one of its dependencies
\* changed, and when it calls setSearchResults a second render follows.
SettleScheduler(ready, points, pointsSet, query, s) ==
  IF query # searchQuery \/ pointsSet \/ ready # isReady
  THEN SearchEffect(Closure(ready, points), query, [s EXCEPT !.resultsSet = FALSE])
  ELSE [s EXCEPT !.resultsSet = FALSE]
FirstRender(fit, pointsSet, query, s) ==
  SceneCommit(Cam, Props(fitPoints, searchResults, searchQuery),
              Props(fit, s.results, query), s.resultsSet, pointsSet,
              isMobile, brainObject)
SecondRender(cam1, fit, query, s, s2) ==
  RunIf(s2.resultsSet,
        SceneCommit(cam1, Props(fit, s.results, query), Props(fit, s2.results, query),
                    TRUE, FALSE, isMobile, brainObject),
        cam1)
SettleScene(fit, pointsSet, query, s, s2) ==
  SecondRender(FirstRender(fit, pointsSet, query, s), fit, query, s, s2)
Commit(type, arg, ready, points, pointsSet, query, s) ==
  \E fit \in {IF pointsSet THEN FitPointsOf(points, brainObject) ELSE fitPoints} :
  \E s2 \in {SettleScheduler(ready, points, pointsSet, query, s)} :
  \E cam2 \in {SettleScene(fit, pointsSet, query, s, s2)} :
     /\ last' = Step(type, arg, s.resultsSet \/ s2.resultsSet)
     /\ dropped' = s2.dropped
     /\ lastRun' = s2.lastRun
     /\ preTransition' =
          IF ~shouldAnimate /\ cam2.shouldAnimate
          THEN Some([pos |-> cameraPosition, target |-> controlsTarget])
          ELSE preTransition
     /\ fitPoints' = fit
     /\ isReady' = ready
     /\ galaxyPoints' = points
     /\ searchQuery' = query
     /\ searchResults' = s2.results
     /\ lastQueryEmbedding' = s2.lastQueryEmbedding
     /\ isSearching' = s2.isSearching
     /\ pendingQuery' = s2.pendingQuery
     /\ searchCalls' = s2.searchCalls
     /\ cameraPosition' = cam2.position
     /\ controlsTarget' = cam2.target
     /\ controlsEnabled' = cam2.enabled
     /\ shouldAnimate' = cam2.shouldAnimate
     /\ cameraTargetPos' = cam2.cameraTargetPos
     /\ controlsTargetLookAt' = cam2.controlsTargetLookAt
     /\ defaultView' = cam2.defaultView


\* --------------------------------------------------------------- actions
\* useModel: the model becomes ready (or stops being ready)
ReadyChange ==
  /\ events < limits.events
  /\ Commit("ReadyChange", 0, ~isReady, galaxyPoints, FALSE, searchQuery, Sched)
  /\ events' = events + 1
  /\ UNCHANGED <<umap, profileVars, isGenerating, generationStatus, generation, rotationY, frames, limits>>

\* onChange of the search box: setSearchQuery(e.target.value)
SetSearchQuery(q) ==
  /\ events < limits.events
  /\ isReady /\ Len(galaxyPoints) > 0
  /\ q # searchQuery
  /\ Commit("SetSearchQuery", 0, isReady, galaxyPoints, FALSE, q, Sched)
  /\ events' = events + 1
  /\ UNCHANGED <<umap, profileVars, isGenerating, generationStatus, generation, rotationY, frames, limits>>

\* The embed call of a search run returns
SearchEmbedResolves(call) ==
  /\ call \in searchCalls
  /\ \E s \in {AfterEmbed(call, Sched)} :
       Commit("SearchEmbedResolves", 0, isReady, galaxyPoints, FALSE, searchQuery, s)
  /\ UNCHANGED <<umap, profileVars, isGenerating, generationStatus, generation, rotationY, events, frames, limits>>

\* The embed call of a search run throws
SearchEmbedThrows(call) ==
  /\ call \in searchCalls
  /\ Commit("SearchEmbedThrows", 0, isReady, galaxyPoints, FALSE, searchQuery, AfterEmbedThrows(call, Sched))
  /\ UNCHANGED <<umap, profileVars, isGenerating, generationStatus, generation, rotationY, events, frames, limits>>

\* onClick of a sphere: handlePointFocus(point) with a rendered point
SphereClick(i) ==
  /\ events < limits.events
  /\ i \in 1..Len(fitPoints)
  /\ Commit("SphereClick", i, isReady, galaxyPoints, FALSE, searchQuery,
            handlePointFocus(fitPoints[i], FALSE, Sched))
  /\ events' = events + 1
  /\ UNCHANGED <<umap, profileVars, isGenerating, generationStatus, generation, rotationY, frames, limits>>

\* onClick of an entry of the result list: handlePointFocus(result)
ResultClick(i) ==
  /\ events < limits.events
  /\ isReady /\ Len(galaxyPoints) > 0
  /\ i \in 1..Len(searchResults)
  /\ Commit("ResultClick", i, isReady, galaxyPoints, FALSE, searchQuery,
            handlePointFocus(searchResults[i], TRUE, Sched))
  /\ events' = events + 1
  /\ UNCHANGED <<umap, profileVars, isGenerating, generationStatus, generation, rotationY, frames, limits>>

\* The poses a drag, pan or zoom of the orbit controls leaves the camera in.
OrbitPoses ==
  { [pos |-> Vec(9000, 1000, -3000), target |-> Vec(500, 0, 0)] }

\* OrbitControls (enableZoom enablePan): the user moves the camera while the
\* controls are enabled
UserOrbit(pose) ==
  /\ events < limits.events
  /\ controlsEnabled
  /\ pose.pos # cameraPosition \/ pose.target # controlsTarget
  /\ cameraPosition' = pose.pos
  /\ controlsTarget' = pose.target
  /\ events' = events + 1
  /\ last' = Step("UserOrbit", 0, FALSE)
  /\ UNCHANGED <<profileVars, appVars, controlsEnabled, shouldAnimate, cameraTargetPos,
                 controlsTargetLookAt, defaultView, rotationY, fitPoints,
                 frames, limits, dropped, lastRun, preTransition>>

\* ------------------------------------------------------------ point colours
\* THREE.Color keeps its channels in the linear working space, here in
\* millionths.  SRGBToLinearTable[v + 1] is SRGBToLinear(v / 255) for the
\* channel value v of a hex colour.
SRGBToLinearTable ==
  <<0, 304, 607, 911, 1214, 1518, 1821, 2125, 2428, 2732, 3035, 3347, 3677,
     4025, 4391, 4777, 5182, 5605, 6049, 6512, 6995, 7499, 8023, 8568, 9134,
     9721, 10330, 10960, 11612, 12286, 12983, 13702, 14444, 15209, 15996,
     16807, 17642, 18500, 19382, 20289, 21219, 22174, 23153, 24158, 25187,
     26241, 27321, 28426, 29557, 30713, 31896, 33105, 34340, 35601, 36889,
     38204, 39546, 40915, 42311, 43735, 45186, 46665, 48172, 49707, 51269,
     52861, 54480, 56128, 57805, 59511, 61246, 63010, 64803, 66626, 68478,
     70360, 72272, 74214, 76185, 78187, 80220, 82283, 84376, 86500, 88656,
     90842, 93059, 95307, 97587, 99899, 102242, 104616, 107023, 109462,
     111932, 114435, 116971, 119538, 122139, 124772, 127438, 130136, 132868,
     135633, 138432, 141263, 144128, 147027, 149960, 152926, 155926, 158961,
     162029, 165132, 168269, 171441, 174647, 177888, 181164, 184475, 187821,
     191202, 194618, 198069, 201556, 205079, 208637, 212231, 215861, 219526,
     223228, 226966, 230740, 234551, 238398, 242281, 246201, 250158, 254152,
     258183, 262251, 266356, 270498, 274677, 278894, 283149, 287441, 291771,
     296138, 300544, 304987, 309469, 313989, 318547, 323143, 327778, 332452,
     337164, 341914, 346704, 351533, 356400, 361307, 366253, 371238, 376262,
     381326, 386429, 391572, 396755, 401978, 407240, 412543, 417885, 423268,
     428690, 434154, 439657, 445201, 450786, 456411, 462077, 467784, 473531,
     479320, 485150, 491021, 496933, 502886, 508881, 514918, 520996, 527115,
     533276, 539479, 545724, 552011, 558340, 564712, 571125, 577580, 584078,
     590619, 597202, 603827, 610496, 617207, 623960, 630757, 637597, 644480,
     651406, 658375, 665387, 672443, 679542, 686685, 693872, 701102, 708376,
     715694, 723055, 730461, 737910, 745404, 752942, 760525, 768151, 775822,
     783538, 791298, 799103, 806952, 814847, 822786, 830770, 838799, 846873,
     854993, 863157, 871367, 879622, 887923, 896269, 904661, 913099, 921582,
     930111, 938686, 947307, 955973, 964686, 973445, 982251, 991102,
     1000000 >>
\* SRGBRoundingTable[v] is SRGBToLinear((v - 0.5) / 255): the least linear
\* value that getHexString rounds to the channel value v.
SRGBRoundingTable ==
  <<152, 455, 759, 1062, 1366, 1669, 1973, 2276, 2580, 2884, 3188, 3509,
     3848, 4206, 4582, 4977, 5391, 5825, 6278, 6751, 7245, 7759, 8293, 8848,
     9425, 10023, 10642, 11283, 11947, 12632, 13340, 14070, 14823, 15600,
     16399, 17222, 18068, 18938, 19832, 20751, 21693, 22661, 23652, 24669,
     25711, 26778, 27870, 28988, 30132, 31301, 32497, 33719, 34967, 36242,
     37544, 38872, 40227, 41610, 43020, 44457, 45922, 47415, 48936, 50484,
     52062, 53667, 55301, 56963, 58655, 60375, 62124, 63903, 65711, 67548,
     69415, 71312, 73239, 75196, 77183, 79200, 81247, 83326, 85434, 87574,
     89745, 91946, 94179, 96443, 98739, 101066, 103425, 105816, 108238,
     110693, 113180, 115699, 118250, 120835, 123451, 126101, 128783, 131498,
     134247, 137028, 139843, 142692, 145574, 148489, 151439, 154422, 157439,
     160491, 163576, 166696, 169851, 173040, 176264, 179522, 182815, 186143,
     189507, 192905, 196339, 199808, 203313, 206853, 210429, 214041, 217689,
     221373, 225092, 228848, 232641, 236470, 240335, 244237, 248175, 252151,
     256163, 260212, 264298, 268422, 272583, 276781, 281017, 285290, 289601,
     293950, 298336, 302761, 307223, 311724, 316263, 320840, 325456, 330110,
     334803, 339534, 344304, 349113, 353961, 358849, 363775, 368740, 373745,
     378789, 383873, 388996, 394159, 399362, 404604, 409886, 415209, 420571,
     425974, 431417, 436900, 442424, 447988, 453593, 459239, 464925, 470653,
     476421, 482230, 488080, 493972, 499905, 505879, 511894, 517951, 524050,
     530191, 536373, 542597, 548863, 555171, 561521, 567913, 574347, 580824,
     587343, 593905, 600509, 607156, 613846, 620578, 627353, 634172, 641033,
     647937, 654885, 661876, 668910, 675987, 683108, 690273, 697481, 704733,
     712029, 719369, 726752, 734180, 741652, 749168, 756728, 764332, 771981,
     779674, 787412, 795195, 803022, 810894, 818811, 826772, 834779, 842830,
     850927, 859069, 867256, 875489, 883767, 892091, 900460, 908874, 917335,
     925841, 934393, 942990, 951634, 960324, 969060, 977842, 986671, 995545 >>
\* new THREE.Color("#rrggbb"), the channels given as numbers
HexColor(r, g, b) ==
  <<SRGBToLinearTable[r + 1], SRGBToLinearTable[g + 1], SRGBToLinearTable[b + 1]>>
\* Math.round(LinearToSRGB(l) * 255): the largest channel value in lo..hi
\* whose rounding bound is at most l (lo when there is none)
RECURSIVE LinearToSRGB(_, _, _)
LinearToSRGB(l, lo, hi) ==
  IF lo = hi THEN lo
  ELSE IF SRGBRoundingTable[(lo + hi + 1) \div 2] <= l
       THEN LinearToSRGB(l, (lo + hi + 1) \div 2, hi)
       ELSE LinearToSRGB(l, lo, (lo + hi + 1) \div 2 - 1)
\* Color.getHexString, as the three channel values
getHexString(color) ==
  <<LinearToSRGB(color[1], 0, 255), LinearToSRGB(color[2], 0, 255),
    LinearToSRGB(color[3], 0, 255)>>
\* Color.lerpColors(color1, color2, alpha), alpha in percent
lerpColors(color1, color2, alpha) ==
  <<color1[1] + DivRound((color2[1] - color1[1]) * alpha, 100),
    color1[2] + DivRound((color2[2] - color1[2]) * alpha, 100),
    color1[3] + DivRound((color2[3] - color1[3]) * alpha, 100)>>
idle == HexColor(52, 33, 95)
mid == HexColor(90, 63, 191)
active == HexColor(155, 123, 255)
\* The colour blended from idle to active in one step
BlendedColorSingleStep(clamped) ==
  getHexString(lerpColors(idle, active, clamped))
\* The colour of a point with a similarity clamped to [0, 1]: toward mid by
\* min(clamped * 2, 1), then toward active by max(0, clamped - 0.5) * 2
BlendedColor(clamped) ==
  getHexString(lerpColors(lerpColors(idle, mid, Min2(clamped * 2, 100)),
                          active, Max2(0, clamped - 50) * 2))
\* new Map(searchResults.map((r) => [r.text, r.similarity])).get(text): the
\* similarity of the last result with that text, or undefined
simMapGet(results, text) ==
  LET hits == {i \in 1..Len(results) : results[i].text = text}
  IN IF hits = {} THEN None
     ELSE Some(results[CHOOSE i \in hits : \A j \in hits : i >= j].similarity)
\* The colour of the point with that text
PointColor(results, text) ==
  IF simMapGet(results, text) = None THEN <<90, 63, 191>>
  ELSE BlendedColor(Clamp(simMapGet(results, text)[1], 0, 100))
\* The pointColors memo for a generated point set (the placeholder points
\* shown before the first generation are left out)
pointColors ==
  IF Len(searchResults) = 0
  THEN [i \in 1..Len(galaxyPoints) |-> <<90, 63, 191>>]
  ELSE [i \in 1..Len(galaxyPoints) |->
          PointColor(searchResults, galaxyPoints[i].text)]

\* ------------------------------------------------------- generation run
\* Positions the projection (UMAP, centring, warpToBrainShape, * 50) can give
\* the sentences: the projection is a black box, so a run takes any of these.
RawLayouts ==
  { <<Vec(-3000, -2000, -1000), Vec(3000, 2000, 1000), Vec(0, 0, 0), Vec(1500, 500, 0)>> }

\* textInput.trim() is empty: every line is blank
AllBlank(textInput) == \A i \in 1..Len(textInput) : Trim(textInput[i]) = ""

\* split("\n").map(trim).filter(Boolean).sort((x) => x.length): the comparator
\* is positive whatever it compares, so the order is the engine's choice; it
\* leaves the array as it is or reverses it.
Sentences(textInput, reverses) ==
  LET kept == SelectSeq([i \in 1..Len(textInput) |-> Trim(textInput[i])],
                        LAMBDA t : t # "")
  IN IF reverses THEN Reverse(kept) ELSE kept

\* The neighbourhood size without its bounds
nNeighborsUnclamped(count) == count - 1
\* nNeighbors of the UMAP run
nNeighbors(count) == Max2(2, Min2(count - 1, 15))
\* new UMAP({ nComponents: 3, nNeighbors, minDist: 0.1 }) and umap.fit(embeddings):
\* the options and the number of vectors fitted
UmapRun(embeddings) ==
  [nComponents |-> 3, nNeighbors |-> nNeighbors(Len(embeddings)),
   vectors |-> Len(embeddings)]

\* The lines of handleGenerateGalaxy that clear the search
ClearSearch(s) ==
  [s EXCEPT !.results = <<>>, !.resultsSet = TRUE, !.lastQueryEmbedding = None]

\* onClick of Generate Brain, the button being enabled: handleGenerateGalaxy up
\* to its first await or its return
GenerateClick(textInput) ==
  /\ events < limits.events
  /\ isReady /\ ~isGenerating
  /\ events' = events + 1
  /\ UNCHANGED <<umap, profileVars, rotationY, frames, limits>>
  /\ IF AllBlank(textInput)
     THEN \* alert("Model not ready or no text provided.")
          /\ last' = Step("GenerateClick", 0, FALSE)
          /\ UNCHANGED <<appVars, sceneVars, dropped, lastRun, preTransition>>
     ELSE LET sentences == Sentences(textInput, engineReverses)
          IN /\ Commit("GenerateClick", Len(sentences), isReady, galaxyPoints,
                       FALSE, "", ClearSearch(Sched))
             /\ IF Len(sentences) < 3
                THEN \* alert("Please provide at least 3 sentences ...")
                     /\ isGenerating' = FALSE
                     /\ generationStatus' = Status("Generating brain...", 0)
                     /\ generation' = None
                ELSE /\ isGenerating' = TRUE
                     /\ generationStatus' = Status("Embedding... (%)", 0)
                     /\ generation' =
                          Some([sentences |-> sentences, i |-> 0, embeddings |-> <<>>])

\* The batch the suspended run is waiting for
BatchEnd(g) == Min2(g.i + batch_size, Len(g.sentences))
WithBatch(g) ==
  [g EXCEPT !.embeddings =
              @ \o [k \in 1..(BatchEnd(g) - g.i) |-> EmbeddingOf(g.sentences[g.i + k])],
            !.i = g.i + batch_size]

\* embed(batch) returns and another batch follows
GenerationEmbedResolves ==
  /\ generation # None
  /\ LET g == generation[1]
     IN /\ g.i + batch_size < Len(g.sentences)
        /\ generation' = Some(WithBatch(g))
        /\ generationStatus' =
             Status("Embedding... (%)", DivRound(BatchEnd(g) * 100, Len(g.sentences)))
  /\ last' = Step("GenerationEmbedResolves", 0, FALSE)
  /\ UNCHANGED <<umap, dropped, lastRun, preTransition, profileVars, isReady, galaxyPoints, searchQuery, searchResults,
                 isGenerating, lastQueryEmbedding, isSearching, pendingQuery,
                 searchCalls, sceneVars, events, frames, limits>>

\* The points of a finished run: sentence, position and embedding by index
NewPointsMisaligned(g, layout) ==
  [k \in 1..Len(g.sentences) |->
     [text |-> g.sentences[k], position |-> layout[k],
      embedding |-> g.embeddings[Len(g.sentences) + 1 - k]]]
NewPoints(g, layout) ==
  [k \in 1..Len(g.sentences) |->
     [text |-> g.sentences[k], position |-> layout[k], embedding |-> g.embeddings[k]]]

\* embed(batch) returns for the last batch and the projection succeeds
GenerationCompletes(layout) ==
  /\ generation # None
  /\ LET g == generation[1]
     IN /\ g.i + batch_size >= Len(g.sentences)
        /\ Commit("GenerationCompletes", 0, isReady, NewPoints(WithBatch(g), layout), TRUE, searchQuery, Sched)
        /\ generationStatus' = Status("Brain generated with neuron sparks", Len(g.sentences))
  /\ umap' = Some(UmapRun(WithBatch(generation[1]).embeddings))
  /\ isGenerating' = FALSE
  /\ generation' = None
  /\ UNCHANGED <<profileVars, rotationY, events, frames, limits>>

\* The catch block without the finally block
GenerationThrowsKeepsFlag ==
  /\ generation # None
  /\ generationStatus' = Status("An error occurred during generation.", 0)
  /\ generation' = None
  /\ last' = Step("GenerationThrows", 0, FALSE)
  /\ UNCHANGED <<umap, dropped, lastRun, preTransition, profileVars, isReady, galaxyPoints, searchQuery, searchResults,
                 isGenerating, lastQueryEmbedding, isSearching, pendingQuery,
                 searchCalls, sceneVars, events, frames, limits>>

\* embed(batch) or the projection throws: the catch and finally blocks
GenerationThrows ==
  /\ generation # None
  /\ \/ \* embed(batch) throws
        umap' = umap
     \/ \* the last batch has returned and umap.fit or a line after it throws
        /\ generation[1].i + batch_size >= Len(generation[1].sentences)
        /\ umap' = Some(UmapRun(WithBatch(generation[1]).embeddings))
  /\ generationStatus' = Status("An error occurred during generation.", 0)
  /\ isGenerating' = FALSE
  /\ generation' = None
  /\ last' = Step("GenerationThrows", 0, FALSE)
  /\ UNCHANGED <<dropped, lastRun, preTransition, profileVars, isReady, galaxyPoints, searchQuery, searchResults,
                 lastQueryEmbedding, isSearching, pendingQuery,
                 searchCalls, sceneVars, events, frames, limits>>

\* ------------------------------------------------------------ frame loop
\* A frame that turns the brain whether or not there are points
TickRotatesWithPoints ==
  /\ LET rotates == brainObject
     IN /\ rotates => rotationY < MaxRotation
        /\ rotationY' = IF rotates THEN rotationY + 1 ELSE rotationY
  /\ shouldAnimate => frames < limits.frames
  /\ frames' = IF shouldAnimate /\ limits.frames < NoLimit THEN frames + 1 ELSE frames
  /\ \E cam \in {FrameCamera(Cam)} :
        /\ cameraPosition' = cam.position
        /\ controlsTarget' = cam.target
        /\ controlsEnabled' = cam.enabled
        /\ shouldAnimate' = cam.shouldAnimate
  /\ last' = IF shouldAnimate \/ rotationY' # rotationY THEN Step("Tick", 0, FALSE) ELSE last
  /\ UNCHANGED <<dropped, lastRun, preTransition, profileVars, appVars, cameraTargetPos, controlsTargetLookAt,
                 defaultView, fitPoints, events, limits>>

\* useFrame: one frame
Tick ==
  /\ LET rotates == Len(galaxyPoints) = 0 /\ brainObject
     IN /\ rotates => rotationY < MaxRotation
        /\ rotationY' = IF rotates THEN rotationY + 1 ELSE rotationY
  /\ shouldAnimate => frames < limits.frames
  /\ frames' = IF shouldAnimate /\ limits.frames < NoLimit THEN frames + 1 ELSE frames
  /\ \E cam \in {FrameCamera(Cam)} :
        /\ cameraPosition' = cam.position
        /\ controlsTarget' = cam.target
        /\ controlsEnabled' = cam.enabled
        /\ shouldAnimate' = cam.shouldAnimate
  /\ last' = IF shouldAnimate \/ rotationY' # rotationY THEN Step("Tick", 0, FALSE) ELSE last
  /\ UNCHANGED <<dropped, lastRun, preTransition, profileVars, appVars, cameraTargetPos, controlsTargetLookAt,
                 defaultView, fitPoints, events, limits>>

\* ------------------------------------------------------- BackgroundMusic
\* audioVolume = isMobile ? 0.05 : 0.14
AudioVolumeOf(mobile) == IF mobile THEN 5 ELSE 14
\* A run of the effect: audio.play() has been called and its promise is pending
EffectRun(m) == [muted |-> m, promise |-> "pending", cleaned |-> FALSE]
\* document.removeEventListener("click", playAudio) for the playAudio of a run
RemoveListener(listeners, run) == SelectSeq(listeners, LAMBDA r : r # run)
\* The cleanup function of a run
Cleanup(listeners, run) == RemoveListener(listeners, run)
\* What the App and the Scene own
nonMusicVars ==
  <<isMobile, batch_size, engineReverses, brainObject, appVars, sceneVars,
    limits, events, frames, dropped, lastRun, preTransition>>

\* setIsMusicMuted: the muted prop changes; the cleanup of the last run of the
\* effect runs, then the effect runs again
SetMusicMuted ==
  /\ musicMounted
  /\ Len(musicEffects) <= MaxToggles
  /\ muted' = ~muted
  /\ clickListeners' = Cleanup(clickListeners, Len(musicEffects))
  /\ audioVolume' = AudioVolumeOf(isMobile)
  /\ audioMuted' = ~muted
  /\ musicEffects' =
       Append([musicEffects EXCEPT ![Len(musicEffects)].cleaned = TRUE],
              EffectRun(~muted))
  /\ last' = Step("SetMusicMuted", 0, FALSE)
  /\ UNCHANGED <<musicMounted, nonMusicVars>>

\* The component unmounts: the cleanup of the last run of the effect runs
MusicUnmount ==
  /\ musicMounted
  /\ musicMounted' = FALSE
  /\ clickListeners' = Cleanup(clickListeners, Len(musicEffects))
  /\ musicEffects' = [musicEffects EXCEPT ![Len(musicEffects)].cleaned = TRUE]
  /\ last' = Step("MusicUnmount", 0, FALSE)
  /\ UNCHANGED <<muted, audioMuted, audioVolume, nonMusicVars>>

\* The promise of audio.play() of a run is fulfilled
PlayResolves(run) ==
  /\ run \in 1..Len(musicEffects)
  /\ musicEffects[run].promise = "pending"
  /\ musicEffects' = [musicEffects EXCEPT ![run].promise = "resolved"]
  /\ last' = Step("PlayResolves", run, FALSE)
  /\ UNCHANGED <<muted, musicMounted, audioMuted, audioVolume, clickListeners,
                 nonMusicVars>>

\* The promise of audio.play() of a run is rejected: its catch handler adds
\* playAudio as a click listener
PlayRejects(run) ==
  /\ run \in 1..Len(musicEffects)
  /\ musicEffects[run].promise = "pending"
  /\ musicEffects' = [musicEffects EXCEPT ![run].promise = "rejected"]
  /\ clickListeners' = Append(clickListeners, run)
  /\ last' = Step("PlayRejects", run, FALSE)
  /\ UNCHANGED <<muted, musicMounted, audioMuted, audioVolume, nonMusicVars>>

\* A click on the document: the listeners run in the order they were added,
\* each once; playAudio sets the volume and the muted flag of its run
DocumentClick ==
  /\ clickListeners # <<>>
  /\ audioVolume' = AudioVolumeOf(isMobile)
  /\ audioMuted' = musicEffects[clickListeners[Len(clickListeners)]].muted
  /\ clickListeners' = <<>>
  /\ last' = Step("DocumentClick", 0, FALSE)
  /\ UNCHANGED <<muted, musicMounted, musicEffects, nonMusicVars>>

\* ------------------------------------------------------- specification
\* The state once App and Scene are mounted: the mount effects have framed the
\* brain and the search effect has run the empty query.
InitWith(profiles, maxEvents, maxFrames) ==
  /\ limits = [events |-> maxEvents, frames |-> maxFrames]
  /\ frames = 0
  /\ fitPoints = <<>>
  /\ \E profile \in profiles :
       /\ isMobile = profile.isMobile
       /\ batch_size = profile.batch_size
       /\ engineReverses = profile.engineReverses
       /\ brainObject = profile.brainObject
  /\ muted = FALSE
  /\ musicMounted = TRUE
  /\ audioMuted = FALSE
  /\ audioVolume = AudioVolumeOf(isMobile)
  /\ musicEffects = <<EffectRun(FALSE)>>
  /\ clickListeners = <<>>
  /\ isReady = FALSE
  /\ galaxyPoints = <<>>
  /\ searchQuery = ""
  /\ searchResults = <<>>
  /\ isGenerating = FALSE
  /\ generationStatus = Status("", 0)
  /\ lastQueryEmbedding = None
  /\ isSearching = FALSE
  /\ pendingQuery = None
  /\ searchCalls = {}
  /\ generation = None
  /\ umap = None
  /\ cameraPosition = computeDefaultView(brainObject, isMobile).pos
  /\ controlsTarget = computeDefaultView(brainObject, isMobile).target
  /\ controlsEnabled = TRUE
  /\ shouldAnimate = FALSE
  /\ cameraTargetPos = Zero3
  /\ controlsTargetLookAt = Zero3
  /\ defaultView = Some(computeDefaultView(brainObject, isMobile))
  /\ rotationY = 0
  /\ events = 0
  /\ dropped = {}
  /\ lastRun = Some("")
  /\ preTransition = None
  /\ last = Step("Init", 0, FALSE)

Init == InitWith(Profiles, MaxEvents, MaxFrames)

\* Number of input events in one behaviour of FocusSpec.
FocusEvents == 4
\* The session of FocusSpec: a mobile device, where the focus distance
\* depends on the length of the text as well
FocusProfiles == {profile \in Profiles : profile.isMobile}
FocusInit == InitWith(FocusProfiles, FocusEvents, NoLimit)

Next ==
  \/ ReadyChange
  \/ \E q \in Queries : SetSearchQuery(q)
  \/ \E call \in searchCalls : SearchEmbedResolves(call)
  \/ \E call \in searchCalls : SearchEmbedThrows(call)
  \/ \E i \in 1..Len(fitPoints) : SphereClick(i)
  \/ \E i \in 1..Len(searchResults) : ResultClick(i)
  \/ \E pose \in OrbitPoses : UserOrbit(pose)
  \/ \E textInput \in TextInputs : GenerateClick(textInput)
  \/ GenerationEmbedResolves
  \/ \E layout \in RawLayouts : GenerationCompletes(layout)
  \/ GenerationThrows
  \/ Tick

Spec == Init /\ [][Next]_vars
\* The frame loop runs for as long as the Canvas is mounted: frames are not
\* limited and a frame that changes something is eventually taken.
FocusSpec == FocusInit /\ [][Next]_vars /\ WF_vars(Tick)

\* An embed call of the scheduler settles
SettleSearch ==
  \E call \in searchCalls : SearchEmbedResolves(call) \/ SearchEmbedThrows(call)
\* Number of input events in one behaviour of SearchSpec
SearchEvents == 5
\* The session of SearchSpec: the one without the brain mesh
SearchProfiles == {profile \in Profiles : ~profile.brainObject}
SearchInit == InitWith(SearchProfiles, SearchEvents, MaxFrames)
\* Weak fairness of SettleSearch, WF_vars(SettleSearch), written out: the
\* action is enabled exactly when a call is in flight, and its steps are the
\* steps recorded as the settling of a call.
SettleFair ==
  \/ []<>(searchCalls = {})
  \/ []<><<last'.type \in {"SearchEmbedResolves", "SearchEmbedThrows"}>>_vars
\* Every embed call of the scheduler completes or fails in the end, and the
\* input events come to an end (there are SearchEvents of them).
SearchSpec == SearchInit /\ [][Next]_vars /\ SettleFair

\* Number of input events in one behaviour of ClearSpec: the model becomes
\* ready, Generate Brain is clicked, two queries are typed, the query is
\* cleared and a point is clicked.
ClearEvents == 6
ClearInit == InitWith(SearchProfiles, ClearEvents, MaxFrames)
\* The session without the brain mesh, over ClearEvents input events
ClearSpec == ClearInit /\ [][Next]_vars

\* BackgroundMusic alone: the App stays as it was mounted
MusicInit == InitWith(Profiles, MaxEvents, MaxFrames)
MusicNext ==
  \/ SetMusicMuted
  \/ MusicUnmount
  \/ \E run \in 1..Len(musicEffects) : PlayResolves(run)
  \/ \E run \in 1..Len(musicEffects) : PlayRejects(run)
  \/ DocumentClick
MusicSpec == MusicInit /\ [][MusicNext]_vars

\* Number of input events in one behaviour of FitSpec: the model becomes
\* ready and Generate Brain is clicked.
FitEvents == 2
\* warpToBrainShape(v) * scaleFactor (50), in hundredths, for v the origin and
\* the vectors (1, 0, 0), (0, 1, 0), (0, -1, 0), (0, 0.5, 0) and (0, 0, 1)
WarpedPositions ==
  { Vec(0, 0, 0), Vec(3000, 0, 0), Vec(0, 9100, 0), Vec(0, -9100, 0),
    Vec(0, 4550, 0), Vec(2246, 0, 3500) }
\* The positions a projection of four sentences can come out as
FitLayouts == [1..4 -> WarpedPositions]
FitInit == InitWith(Profiles, FitEvents, MaxFrames)
FitNext ==
  \/ ReadyChange
  \/ \E textInput \in TextInputs : GenerateClick(textInput)
  \/ GenerationEmbedResolves
  \/ \E layout \in FitLayouts : GenerationCompletes(layout)
\* The generation pipeline alone, over every layout of FitLayouts
FitSpec == FitInit /\ [][FitNext]_vars

\* Largest number of lines in the textarea in a behaviour of ReducerSpec
MaxSentences == 17
\* Number of input events in one behaviour of ReducerSpec
ReducerEvents == 2
\* The textarea holding n times the same line, n from 0 to MaxSentences
LongInputs == UNION {[1..n -> {"s1"}] : n \in 0..MaxSentences}
\* A layout for up to MaxSentences sentences, its positions taken in turn
\* from three of the warped positions
LongLayouts ==
  { [k \in 1..MaxSentences |->
       CASE k % 3 = 0 -> Vec(0, 9100, 0)
         [] k % 3 = 1 -> Vec(3000, 0, 0)
         [] OTHER -> Vec(2246, 0, 3500)] }
ReducerInit == InitWith(Profiles, ReducerEvents, MaxFrames)
ReducerNext ==
  \/ ReadyChange
  \/ \E textInput \in LongInputs : GenerateClick(textInput)
  \/ GenerationEmbedResolves
  \/ \E layout \in LongLayouts : GenerationCompletes(layout)
  \/ GenerationThrows
\* The generation pipeline alone, over every number of sentences up to
\* MaxSentences
ReducerSpec == ReducerInit /\ [][ReducerNext]_vars

\* ------------------------------------------------------------ properties
\* The steps in which an embed call of the scheduler settles
SettleSteps == {"SearchEmbedResolves", "SearchEmbedThrows"}

\* C1: at most one scheduler-issued embed([query]) call is in flight at any
\* time.
C1_SingleFlight == Cardinality(searchCalls) <= 1
\* A call is in flight and a later query waits in the pending slot.
C1_Witness == Cardinality(searchCalls) = 1 /\ pendingQuery # None

\* C2: a query submitted while a search is in flight only overwrites the
\* pending slot and starts no call; the slot always holds the latest query;
\* when the in-flight call settles with the slot filled, the slot is emptied
\* and exactly one run starts, with the slot's query (a call unless that run
\* takes the immediate path).
C2_LatestWins ==
  [][ /\ (isSearching /\ searchQuery' # searchQuery)
         => (pendingQuery' = Some(searchQuery') /\ searchCalls' = searchCalls)
      /\ pendingQuery' # None => pendingQuery' = Some(searchQuery')
      /\ \A call \in searchCalls :
           (last'.type \in SettleSteps /\ pendingQuery # None)
           => /\ pendingQuery' = None
              /\ Cardinality(searchCalls') <= 1
              /\ \A started \in searchCalls' : started.query = pendingQuery[1]
              /\ (searchCalls' = {})
                   = (\/ Trim(pendingQuery[1]) = ""
                      \/ ~call.closure.isReady
                      \/ Len(call.closure.galaxyPoints) = 0)
    ]_vars
\* A call has settled after a query was overwritten in the slot, and the run
\* for the latest query is in flight.
C2_Witness ==
  /\ last.type \in SettleSteps
  /\ dropped # {}
  /\ \E call \in searchCalls : call.query = searchQuery /\ call.query \notin dropped

\* C3: when a call resolves while a different, newer query is pending, its
\* ranking is not applied: the result list of the next state is not the
\* ranking for the superseded query.
C3_StaleResultDiscarded ==
  [][ \A call \in searchCalls :
        (/\ last'.type = "SearchEmbedResolves"
         /\ pendingQuery # None
         /\ pendingQuery # Some(call.query))
        => searchResults' # RankPoints(call.closure.galaxyPoints, EmbeddingOf(call.query))
    ]_vars

\* C8: a Generate click on fewer than three non-blank lines changes none of
\* the point set, the result list, the query, the last query vector, the
\* generating flag and the status.
C8_TooFewSentencesNoChange ==
  [][ (last'.type = "GenerateClick" /\ last'.arg < 3)
      => UNCHANGED <<galaxyPoints, searchResults, searchQuery, lastQueryEmbedding,
                     isGenerating, generationStatus>>
    ]_vars

\* C9: while a generation run is suspended the point set does not change; when
\* its embedding or projection fails, the points (and their fit) are still
\* those of before, the status is the error message, the generating flag is
\* cleared, and no run is left suspended, so that Generate is enabled again.
C9_GenerationFailure ==
  [][ /\ (generation # None /\ last'.type # "GenerationCompletes")
         => galaxyPoints' = galaxyPoints
      /\ last'.type = "GenerationThrows"
         => /\ generation # None
            /\ galaxyPoints' = galaxyPoints /\ fitPoints' = fitPoints
            /\ generationStatus' = Status("An error occurred during generation.", 0)
            /\ ~isGenerating'
            /\ generation' = None
      /\ isGenerating' = (generation' # None)
    ]_vars
\* A run has failed after an earlier one had produced points.
C9_Witness ==
  /\ last.type = "GenerationThrows"
  /\ Len(galaxyPoints) > 0
  /\ ~isGenerating

\* C10: the in-flight flag is set exactly while a call is outstanding, and a
\* query waits only while a call is outstanding; when a call fails, the
\* waiting query is taken and run at once, and with none waiting the
\* scheduler is idle, so that the next submission runs.
C10_FailureDoesNotBlock ==
  [][ /\ isSearching' = (searchCalls' # {})
      /\ pendingQuery' # None => isSearching'
      /\ last'.type = "SearchEmbedThrows"
         => /\ pendingQuery' = None
            /\ pendingQuery = None => ~isSearching'
            /\ \A started \in searchCalls' : pendingQuery = Some(started.query)
            /\ \A call \in searchCalls :
                 (/\ pendingQuery # None /\ Trim(pendingQuery[1]) # ""
                  /\ call.closure.isReady /\ Len(call.closure.galaxyPoints) > 0)
                 => searchCalls' # {}
    ]_vars
\* A call has failed and the run for the query that waited is in flight.
C10_Witness ==
  /\ last.type = "SearchEmbedThrows"
  /\ isSearching
  /\ \E call \in searchCalls : call.query = searchQuery

\* ------------------------------------------------- camera properties
\* The pose framed at mount
MountPose == computeDefaultView(brainObject, isMobile)
AtDefaultPose ==
  /\ defaultView # None
  /\ cameraPosition = defaultView[1].pos
  /\ controlsTarget = defaultView[1].target
\* Focused: the animation has ended on its target with the controls enabled
Focused ==
  /\ ~shouldAnimate /\ controlsEnabled
  /\ searchResults # <<>>
  /\ cameraPosition = cameraTargetPos
  /\ controlsTarget = controlsTargetLookAt
\* Nothing is in flight and no input event is left
Quiescent == events = limits.events /\ searchCalls = {} /\ generation = None
QueryCleared == searchQuery' # searchQuery /\ Trim(searchQuery') = ""

\* C4: in every reachable state the orbit controls are disabled exactly when
\* shouldAnimate is true.
C4_ControlsDisabledIffTransitioning == (~controlsEnabled) = shouldAnimate

\* C5: a new non-empty result list whose top entry matches a rendered point,
\* arriving while no animation runs, starts the animation; a frame never
\* starts one, and the frame that ends one leaves the camera on its target
\* with the controls enabled (Focused); and once nothing more can arrive, a
\* running animation eventually ends in Focused.
C5_TransitionTerminates ==
  /\ [][ /\ (/\ ~shouldAnimate
             /\ searchResults' # searchResults /\ searchResults' # <<>>
             /\ FindByText(fitPoints', searchResults'[1].text) # None)
            => shouldAnimate'
         /\ (last'.type = "Tick" /\ ~shouldAnimate) => ~shouldAnimate'
         /\ (last'.type = "Tick" /\ shouldAnimate /\ ~shouldAnimate')
            => (/\ controlsEnabled'
                /\ cameraPosition' = cameraTargetPos
                /\ controlsTarget' = controlsTargetLookAt)
       ]_vars
  /\ (shouldAnimate /\ Quiescent) ~> Focused
\* A frame has ended an animation in Focused, away from where it began.
C5_Witness ==
  /\ last.type = "Tick"
  /\ Focused
  /\ preTransition # None
  /\ cameraPosition # preTransition[1].pos

\* C6 as stated: when the query text becomes empty the camera position and
\* look-target are those of before the transition began.
C6_BackToPreTransitionPose ==
  [][ (QueryCleared /\ preTransition # None)
      => (/\ cameraPosition' = preTransition[1].pos
          /\ controlsTarget' = preTransition[1].target)
    ]_vars
\* C6 amended: when the query text becomes empty the camera position and
\* look-target are those of the stored Default pose, which is the pose framed
\* at mount whatever the camera did since.
C6_BackToStoredDefaultPose ==
  [][ /\ defaultView' = Some(MountPose)
      /\ QueryCleared
         => (cameraPosition' = MountPose.pos /\ controlsTarget' = MountPose.target)
    ]_vars
\* The query has been cleared after frames of an animation had moved the
\* camera, and the camera is back on the stored pose.
C6_Witness ==
  /\ last.type = "SetSearchQuery"
  /\ Trim(searchQuery) = ""
  /\ frames > 0
  /\ preTransition # None
  /\ AtDefaultPose

\* C7: a step that sets an empty result list, empties the query text, or
\* takes the result list from non-empty to empty leaves no animation running,
\* the controls enabled and the camera on the stored Default pose.
C7_AbortToDefault ==
  [][ (\/ (last'.resultsSet /\ searchResults' = <<>>)
       \/ QueryCleared
       \/ (searchResults # <<>> /\ searchResults' = <<>>))
      => (~shouldAnimate' /\ controlsEnabled' /\ AtDefaultPose')
    ]_vars
\* The result list has shrunk to zero while an animation was moving the
\* camera with the controls disabled, the query text staying as it was.
C7_Witness ==
  /\ last.resultsSet
  /\ last.type \in {"ReadyChange", "GenerateClick", "SearchEmbedResolves"}
  /\ searchResults = <<>>
  /\ frames > 0
  /\ ~shouldAnimate /\ controlsEnabled /\ AtDefaultPose

\* ------------------------------------------------- search run properties
\* The run for query text q in closure c takes the immediate path
Immediate(q, c) == Trim(q) = "" \/ ~c.isReady \/ Len(c.galaxyPoints) = 0
\* The result list is ordered by non-increasing score
Sorted(results) ==
  \A i \in 1..Len(results) : \A j \in 1..Len(results) :
    i < j => results[i].similarity >= results[j].similarity
\* The search effect runs in this step
EffectRuns ==
  \/ searchQuery' # searchQuery
  \/ isReady' # isReady
  \/ last'.type = "GenerationCompletes"

\* C11: after a run whose embed call has failed, no other query waiting, the
\* result list is empty.
C11_FailedRunGivesNoResults ==
  [][ (last'.type = "SearchEmbedThrows" /\ pendingQuery = None)
      => searchResults' = <<>>
    ]_vars

C13_RankingOfARun ==
  [][ \A call \in searchCalls :
        (/\ last'.type = "SearchEmbedResolves"
         /\ (pendingQuery = None \/ ~Immediate(pendingQuery[1], call.closure)))
        => LET points == call.closure.galaxyPoints
               n == Len(points)
           IN /\ Len(searchResults') = n
              /\ \E f \in [1..n -> 1..n] :
                   /\ \A i \in 1..n : \A j \in 1..n : i # j => f[i] # f[j]
                   /\ \A i \in 1..n :
                        searchResults'[i] =
                          [text |-> points[f[i]].text,
                           position |-> points[f[i]].position,
                           embedding |-> points[f[i]].embedding,
                           similarity |-> cos_sim(EmbeddingOf(call.query),
                                                  points[f[i]].embedding)]
                   /\ \A i \in 1..n : \A j \in 1..n :
                        i < j => \/ searchResults'[i].similarity > searchResults'[j].similarity
                                 \/ /\ searchResults'[i].similarity = searchResults'[j].similarity
                                    /\ f[i] < f[j]
    ]_vars
\* A run has resolved into a list with both a tie and a strict descent.
C13_Witness ==
  /\ last.type = "SearchEmbedResolves"
  /\ Len(searchResults) >= 3
  /\ \E i \in 1..(Len(searchResults) - 1) :
       searchResults[i].similarity = searchResults[i + 1].similarity
  /\ \E i \in 1..(Len(searchResults) - 1) :
       searchResults[i].similarity > searchResults[i + 1].similarity

\* C14: after every step, whatever searches, selections and generations have
\* completed, the result list is in non-increasing order of score.
C14_AlwaysSorted == Sorted(searchResults)
\* C14, as the code has it: every step other than a direct selection that
\* changes the result list leaves it in non-increasing order of score (a
\* selection puts the selected entry first whatever its score).
C14_SortedUnlessSelected ==
  [][ (/\ last'.type \notin {"SphereClick", "ResultClick"}
       /\ searchResults' # searchResults)
      => Sorted(searchResults')
    ]_vars
\* A search has resolved into a list whose scores are not all equal.
C14_Witness ==
  /\ last.type = "SearchEmbedResolves"
  /\ Len(searchResults) >= 3
  /\ Sorted(searchResults)
  /\ searchResults[1].similarity > searchResults[Len(searchResults)].similarity

\* C15: a run begins only when no call is in flight or in the step that
\* settles the call before it, and never leaves two calls in flight; in that
\* step the settled call's ranking is set first and the new run acts after
\* it, so a new run that takes the immediate path leaves the list empty and
\* a new run that calls embed leaves the settled call's ranking in place.
C15_AppliedInRunOrder ==
  [][ /\ Cardinality(searchCalls') <= 1
      /\ (searchCalls' \ searchCalls # {})
         => (searchCalls = {} \/ last'.type \in SettleSteps)
      /\ \A call \in searchCalls :
           (last'.type = "SearchEmbedResolves" /\ pendingQuery # None)
           => IF Immediate(pendingQuery[1], call.closure)
              THEN searchResults' = <<>> /\ lastQueryEmbedding' = None
              ELSE /\ searchResults' =
                        RankPoints(call.closure.galaxyPoints, EmbeddingOf(call.query))
                   /\ lastQueryEmbedding' = Some(EmbeddingOf(call.query))
    ]_vars
\* A call has resolved with a blank query waiting: the list is empty, not the
\* ranking of the resolved call.
C15_Witness ==
  /\ last.type = "SearchEmbedResolves" /\ last.resultsSet
  /\ Trim(searchQuery) = "" /\ Len(galaxyPoints) > 0
  /\ searchResults = <<>> /\ searchCalls = {} /\ ~isSearching

\* The sequence without its k-th entry
Without(seq, k) ==
  [j \in 1..(Len(seq) - 1) |-> IF j < k THEN seq[j] ELSE seq[j + 1]]
\* C16: a direct selection of a point, made when a last query vector exists
\* or the point carries a score, puts that point first with its score (the
\* carried one, or the one computed against the last query vector), keeps
\* every other entry of the list in its order, none lost, and starts the
\* camera's transition toward the point.
C16_SelectionMovesToFront ==
  [][ /\ \A i \in 1..Len(fitPoints) :
           (/\ last'.type = "SphereClick" /\ last'.arg = i
            /\ lastQueryEmbedding # None)
           => /\ searchResults' # <<>>
              /\ searchResults'[1].text = fitPoints[i].text
              /\ searchResults'[1].similarity =
                   cos_sim(lastQueryEmbedding[1], fitPoints[i].embedding)
              /\ \/ /\ \A k \in 1..Len(searchResults) :
                         searchResults[k].text # fitPoints[i].text
                    /\ Tail(searchResults') = searchResults
                 \/ \E k \in 1..Len(searchResults) :
                      /\ searchResults[k].text = fitPoints[i].text
                      /\ Tail(searchResults') = Without(searchResults, k)
              /\ shouldAnimate'
              /\ controlsTargetLookAt' = fitPoints[i].position
      /\ \A i \in 1..Len(searchResults) :
           (last'.type = "ResultClick" /\ last'.arg = i)
           => /\ searchResults' # <<>>
              /\ searchResults'[1] = searchResults[i]
              /\ Tail(searchResults') = Without(searchResults, i)
              /\ shouldAnimate'
              /\ \E j \in 1..Len(fitPoints) :
                   /\ fitPoints[j].text = searchResults[i].text
                   /\ controlsTargetLookAt' = fitPoints[j].position
    ]_vars

\* C17: a direct selection of a point that carries no score, made when no
\* last query vector exists, makes that point the focused point: it is the
\* first entry of the result list afterwards.
C17_SelectionWithoutVectorFocuses ==
  [][ \A i \in 1..Len(fitPoints) :
        (/\ last'.type = "SphereClick" /\ last'.arg = i
         /\ lastQueryEmbedding = None)
        => /\ searchResults' # <<>>
           /\ searchResults'[1].text = fitPoints[i].text
    ]_vars

\* ---------------------------------------------------- ellipsoid fit properties
\* ((p - c) / a)^2 summed over the axes is at most bound^2, the ratios and the
\* bound in thousandths
InsideEllipsoid(p, c, a, bound) ==
  DivRound((p[1] - c[1]) * 1000, a[1]) * DivRound((p[1] - c[1]) * 1000, a[1])
    + DivRound((p[2] - c[2]) * 1000, a[2]) * DivRound((p[2] - c[2]) * 1000, a[2])
    + DivRound((p[3] - c[3]) * 1000, a[3]) * DivRound((p[3] - c[3]) * 1000, a[3])
    <= bound * bound
\* The length of v, in ten-thousandths, lies in [lo, hi] to the grid of the
\* arithmetic (two ten-thousandths)
RadiusWithin(v, lo, hi) ==
  /\ VLenSq(v) >= (lo - 2) * (lo - 2)
  /\ VLenSq(v) <= (hi + 2) * (hi + 2)

\* C18: every displayed point lies in the inner ellipsoid scaled by 0.97,
\* whatever the layout and whether the container is the brain mesh's or the
\* default one.
C18_Containment ==
  \A i \in 1..Len(fitPoints) :
    InsideEllipsoid(fitPoints[i].position, innerCenter(brainObject),
                    innerAxes(brainObject), 970)

\* C19: in the fit of a point set of three points or more, the normalized
\* radius of every point before the 0.97 scaling is at most 0.95, and a point
\* whose normalized radius was below 0.05 has a radius in [0.05, 0.15].
C19_ClampAndPush ==
  (brainObject /\ Len(galaxyPoints) >= 3)
  => \A i \in 1..Len(galaxyPoints) :
       /\ RadiusWithin(NormalizedFit(galaxyPoints, i - 1), 0, 9500)
       /\ VLenSq(NormalizedRaw(galaxyPoints, i - 1)) < 500 * 500
          => RadiusWithin(NormalizedFit(galaxyPoints, i - 1), 500, 1500)
\* A fitted point set with a point beyond radius 0.95, a point nearer the
\* centre than 0.05 and a point between the two.
C19_Witness ==
  /\ brainObject /\ Len(galaxyPoints) >= 3
  /\ fitPoints = FitPointsOf(galaxyPoints, brainObject)
  /\ \E i \in 1..Len(galaxyPoints) :
       VLenSq(NormalizedRaw(galaxyPoints, i - 1)) > 9500 * 9500
  /\ \E i \in 1..Len(galaxyPoints) :
       VLenSq(NormalizedRaw(galaxyPoints, i - 1)) < 500 * 500
  /\ \E i \in 1..Len(galaxyPoints) :
       /\ VLenSq(NormalizedRaw(galaxyPoints, i - 1)) > 500 * 500
       /\ VLenSq(NormalizedRaw(galaxyPoints, i - 1)) < 9500 * 9500

\* C20: without the brain mesh the displayed points are the points fitted
\* into the default ellipsoid (half size 55), and lie inside it.
C20_FallbackFitApplied ==
  ~brainObject
  => \A i \in 1..Len(fitPoints) :
       /\ fitPoints[i].position =
            IntoEllipsoid(VScale(NormalizedFit(galaxyPoints, i - 1), 97, 100),
                          innerAxesMargin(FALSE), innerCenter(FALSE))
       /\ InsideEllipsoid(fitPoints[i].position, innerCenter(FALSE),
                          innerAxes(FALSE), 1000)

\* ------------------------------------------------- generation properties
\* C21: the point set changes only in the step that completes a generation,
\* and that step sets it whole: one point per sentence of the run, the k-th
\* with the k-th sentence, the k-th sentence's embedding and the k-th
\* projected position; while the run is suspended the point set is the one
\* of before the click.
C21_PointSetReplacedWhole ==
  [][ /\ galaxyPoints' # galaxyPoints
         => (last'.type = "GenerationCompletes" /\ generation # None)
      /\ (last'.type = "GenerationCompletes" /\ generation # None)
         => /\ Len(galaxyPoints') = Len(generation[1].sentences)
            /\ \E layout \in RawLayouts :
                 \A k \in 1..Len(galaxyPoints') :
                   /\ galaxyPoints'[k].text = generation[1].sentences[k]
                   /\ galaxyPoints'[k].embedding =
                        EmbeddingOf(generation[1].sentences[k])
                   /\ galaxyPoints'[k].position = layout[k]
    ]_vars
\* A generation of four sentences with different embeddings has completed.
C21_Witness ==
  /\ last.type = "GenerationCompletes"
  /\ Len(galaxyPoints) = 4
  /\ galaxyPoints[1].embedding # galaxyPoints[4].embedding
  /\ generation = None /\ ~isGenerating

\* C22: the texts of the points of the point set are pairwise distinct.
C22_LabelsDistinct ==
  \A i \in 1..Len(galaxyPoints) : \A j \in 1..Len(galaxyPoints) :
    i # j => galaxyPoints[i].text # galaxyPoints[j].text

\* C23: the UMAP is fitted to three vectors or more, with a neighbourhood
\* size of max(2, min(count - 1, 15)), which lies in 2..15 and is at most
\* count - 1, and with three components.
C23_ReducerArguments ==
  umap # None
  => /\ umap[1].vectors >= 3
     /\ umap[1].nNeighbors =
          (IF umap[1].vectors - 1 > 15 THEN 15
           ELSE IF umap[1].vectors - 1 < 2 THEN 2 ELSE umap[1].vectors - 1)
     /\ umap[1].nNeighbors \in 2..15
     /\ umap[1].nNeighbors <= umap[1].vectors - 1
     /\ umap[1].nComponents = 3
\* The UMAP has been fitted to more than sixteen vectors, where the upper
\* bound of the neighbourhood size acts.
C23_Witness ==
  /\ umap # None
  /\ umap[1].vectors > 16
  /\ umap[1].nNeighbors = 15
  /\ Len(galaxyPoints) = umap[1].vectors

\* ------------------------------------------------ focus distance properties
\* The distance from the stored look-at target to the stored camera target
FocusDistance(camTarget, lookAt) == VLength(VSub(camTarget, lookAt))
\* The focus effect runs on a new, non-empty result list whose top entry is a
\* rendered point
FocusStarts ==
  /\ searchResults' # <<>>
  /\ searchResults' # searchResults
  /\ FindByText(fitPoints', searchResults'[1].text) # None
\* The stored targets are desiredDist apart, to the grid of the arithmetic
TargetsAtDesiredDist(camTarget, lookAt, topResult) ==
  Abs(FocusDistance(camTarget, lookAt) - desiredDist(topResult, isMobile)) <= 2

\* C24 as stated: the focus distance of a top result, divided by the
\* device/content adjustment, is strictly above 6 and strictly below 20.
C24_StrictlyBetweenBounds ==
  [][ FocusStarts
      => /\ TargetsAtDesiredDist(cameraTargetPos', controlsTargetLookAt',
                                 searchResults'[1])
         /\ baseDist(searchResults'[1].similarity) > minFocusDist
         /\ baseDist(searchResults'[1].similarity) < maxFocusDist
    ]_vars
\* C24, as the code has it: the stored targets are baseDist times the
\* adjustment apart, baseDist being at least 6 and at most 20; it is 6 for a
\* score of 1 and 20 for every score of 0 or less.
C24_WithinBounds ==
  [][ FocusStarts
      => /\ shouldAnimate'
         /\ TargetsAtDesiredDist(cameraTargetPos', controlsTargetLookAt',
                                 searchResults'[1])
         /\ desiredDist(searchResults'[1], isMobile) * 200
              - baseDist(searchResults'[1].similarity)
                  * distanceAdjustNum(searchResults'[1].text, isMobile)
              \in -100..100
         /\ baseDist(searchResults'[1].similarity) >= minFocusDist
         /\ baseDist(searchResults'[1].similarity) <= maxFocusDist
         /\ searchResults'[1].similarity >= 100
              => baseDist(searchResults'[1].similarity) = minFocusDist
         /\ searchResults'[1].similarity <= 0
              => baseDist(searchResults'[1].similarity) = maxFocusDist
    ]_vars
\* A search has put a point of score 1 on top: the targets are 6 times the
\* adjustment apart.
C24_Witness ==
  /\ last.type = "SearchEmbedResolves"
  /\ shouldAnimate
  /\ searchResults # <<>>
  /\ searchResults[1].similarity = 100
  /\ TargetsAtDesiredDist(cameraTargetPos, controlsTargetLookAt, searchResults[1])
  /\ baseDist(searchResults[1].similarity) = minFocusDist

\* ------------------------------------------------------- colour properties
\* C25: while results are shown, a point with a score of 1 or above has the
\* colour #9b7bff (active), a point with a score of 0 or below has #34215f
\* (idle), and a point with a score of 0.5 has #5a3fbf (mid).
C25_ColourAtScores ==
  searchResults # <<>>
  => \A i \in 1..Len(galaxyPoints) :
       simMapGet(searchResults, galaxyPoints[i].text) # None
       => /\ simMapGet(searchResults, galaxyPoints[i].text)[1] >= 100
             => pointColors[i] = <<155, 123, 255>>
          /\ simMapGet(searchResults, galaxyPoints[i].text)[1] <= 0
             => pointColors[i] = <<52, 33, 95>>
          /\ simMapGet(searchResults, galaxyPoints[i].text)[1] = 50
             => pointColors[i] = <<90, 63, 191>>
\* Results are shown with a point at score 0.5, a point at score 1 and a
\* point at 0 or below.
C25_Witness ==
  /\ searchResults # <<>>
  /\ \E i \in 1..Len(galaxyPoints) :
       simMapGet(searchResults, galaxyPoints[i].text) = Some(50)
  /\ \E i \in 1..Len(galaxyPoints) :
       simMapGet(searchResults, galaxyPoints[i].text) = Some(100)
  /\ \E i \in 1..Len(galaxyPoints) :
       /\ simMapGet(searchResults, galaxyPoints[i].text) # None
       /\ simMapGet(searchResults, galaxyPoints[i].text)[1] <= 0

\* The point number i of the set is nearer the centre of the box than 0.05
NearOrigin(points, i) == VLenSq(NormalizedRaw(points, i - 1)) < 500 * 500
C27_NoQueryLost ==
  <>[](/\ searchCalls = {} /\ ~isSearching /\ pendingQuery = None
       /\ lastRun = Some(searchQuery))
\* The scheduler is idle after the call for the current query has settled,
\* a query typed before it having been overwritten in the pending slot.
C27_Witness ==
  /\ last.type \in SettleSteps
  /\ searchCalls = {} /\ ~isSearching /\ pendingQuery = None
  /\ lastRun = Some(searchQuery)
  /\ Trim(searchQuery) # ""
  /\ dropped # {}

\* ------------------------------------------------- results and point set
\* C28: whenever the scheduler is idle (no call in flight, no pending query),
\* every entry of the result list has the text and the embedding of a point
\* of the current point set.
C28_ResultsOfCurrentPoints ==
  (searchCalls = {} /\ ~isSearching /\ pendingQuery = None)
  => \A i \in 1..Len(searchResults) :
       \E j \in 1..Len(galaxyPoints) :
         /\ galaxyPoints[j].text = searchResults[i].text
         /\ galaxyPoints[j].embedding = searchResults[i].embedding

\* ------------------------------------------------- cleared query and camera
\* C29: while the query text is and stays empty, no step sets the animation
\* flag: the camera does not start a transition.
C29_NoTransitionWhileEmpty ==
  [][ (searchQuery = "" /\ searchQuery' = "" /\ ~shouldAnimate)
      => ~shouldAnimate'
    ]_vars

\* ------------------------------------------------------- frames and focus
\* Square of the distance from the camera to its focus target position
Remaining == VLenSq(VSub(cameraPosition, cameraTargetPos))
\* distToTarget > 0.01 is false
Arrived == ~VDistGreater(cameraPosition, cameraTargetPos, FocusEpsilon)

\* C30: Focused is entered only by a frame of a running animation that finds
\* the camera within the epsilon of its target position; that frame puts
\* camera position and look-target on the stored targets, enables the
\* controls and ends the animation; every other frame of a running animation
\* keeps it running and leaves 92% of the distance (to the rounding of the
\* grid), strictly less than before; a frame with no animation running leaves
\* camera position, look-target and control flag as they are.
C30_FrameSteps ==
  [][ /\ (~Focused /\ Focused')
         => (last'.type = "Tick" /\ shouldAnimate /\ Arrived)
      /\ (last'.type = "Tick" /\ shouldAnimate /\ Arrived)
         => (/\ cameraPosition' = cameraTargetPos
             /\ controlsTarget' = controlsTargetLookAt
             /\ controlsEnabled' /\ ~shouldAnimate')
      /\ (last'.type = "Tick" /\ shouldAnimate /\ ~Arrived)
         => (/\ shouldAnimate'
             /\ Remaining' < Remaining
             /\ 100 * VLength(VSub(cameraPosition', cameraTargetPos))
                  <= (LerpDen - LerpNum) * VLength(VSub(cameraPosition, cameraTargetPos))
                       + 100)
      /\ (last'.type = "Tick" /\ ~shouldAnimate)
         => UNCHANGED <<cameraPosition, controlsTarget, controlsEnabled>>
    ]_vars
\* A frame has put the camera on the targets of the top of three results.
C30_Witness ==
  /\ last.type = "Tick"
  /\ Focused
  /\ Len(searchResults) >= 3
  /\ FindByText(fitPoints, searchResults[1].text) # None
  /\ controlsTarget = FindByText(fitPoints, searchResults[1].text)[1].position

\* --------------------------------------------- focus distance as a formula
\* The scores and the text lengths the formula is compared over
Scores == -100..100
TextLengths == {0, 24, 40, 41, 60, 100, 120, 121, 200}
\* (20 - 14 * clamp(similarity, 0, 1)) * adjust in hundredths, adjust being 1
\* on a desktop and 1 + 0.4 * clamp((textLength - 40) / 80, 0, 1) on a mobile
\* device; the similarity in percent
FocusFormula(similarity, textLength, mobile) ==
  LET base == 2000 - 14 * Max2(0, Min2(similarity, 100))
      extra == IF mobile THEN Max2(0, Min2(textLength - 40, 80)) ELSE 0
  IN DivRound(base * (200 + extra), 200)

\* C31: when the focus effect starts a transition, the stored targets are
\* apart by (20 - 14 * clamp(similarity, 0, 1)) * adjust for the top result;
\* a top result of a higher score would not be farther, on a desktop the
\* distance is the same for every text length, and on a mobile device a
\* longer text would not be nearer.
C31_FocusDistanceFormula ==
  [][ FocusStarts
      => /\ desiredDist(searchResults'[1], isMobile)
              = FocusFormula(searchResults'[1].similarity,
                             StrLength(searchResults'[1].text), isMobile)
         /\ TargetsAtDesiredDist(cameraTargetPos', controlsTargetLookAt',
                                 searchResults'[1])
         /\ \A score \in Scores :
              /\ score >= searchResults'[1].similarity
                 => desiredDist([searchResults'[1] EXCEPT !.similarity = score], isMobile)
                      <= desiredDist(searchResults'[1], isMobile)
              /\ score <= searchResults'[1].similarity
                 => desiredDist([searchResults'[1] EXCEPT !.similarity = score], isMobile)
                      >= desiredDist(searchResults'[1], isMobile)
         /\ \A i \in 1..Len(searchResults') :
              /\ ~isMobile
                 => desiredDist([searchResults'[1] EXCEPT !.text = searchResults'[i].text],
                                isMobile)
                      = desiredDist(searchResults'[1], isMobile)
              /\ (isMobile /\ StrLength(searchResults'[i].text)
                                >= StrLength(searchResults'[1].text))
                 => desiredDist([searchResults'[1] EXCEPT !.text = searchResults'[i].text],
                                isMobile)
                      >= desiredDist(searchResults'[1], isMobile)
         /\ \A len \in TextLengths :
              /\ FocusFormula(searchResults'[1].similarity, len, FALSE)
                   = FocusFormula(searchResults'[1].similarity, 0, FALSE)
              /\ len >= StrLength(searchResults'[1].text)
                 => FocusFormula(searchResults'[1].similarity, len, TRUE)
                      >= desiredDist(searchResults'[1], TRUE)
    ]_vars
\* On a mobile device a point with a text of 100 characters is on top: the
\* targets are farther apart than its score alone gives.
C31_Witness ==
  /\ isMobile /\ shouldAnimate
  /\ searchResults # <<>>
  /\ StrLength(searchResults[1].text) = 100
  /\ TargetsAtDesiredDist(cameraTargetPos, controlsTargetLookAt, searchResults[1])
  /\ desiredDist(searchResults[1], isMobile) > baseDist(searchResults[1].similarity)

\* ------------------------------------------------ results without a point
\* A step stores a non-empty result list whose top entry has the text of no
\* displayed point
UnmatchedResultsArrive ==
  /\ last'.resultsSet
  /\ searchResults' # <<>>
  /\ FindByText(fitPoints', searchResults'[1].text) = None

\* C32: a step that stores a non-empty result list whose top entry's text is
\* the text of no displayed point leaves the stored focus targets, the
\* animation flag, the camera position, the look-target and the control flag
\* as they were.
C32_UnmatchedTopChangesNothing ==
  [][ UnmatchedResultsArrive
      => UNCHANGED <<cameraTargetPos, controlsTargetLookAt, shouldAnimate,
                     cameraPosition, controlsTarget, controlsEnabled>>
    ]_vars
\* The results of a search against the points of before a generation are
\* listed, their top entry being a sentence the new points do not have.
C32_Witness ==
  /\ last.type = "SearchEmbedResolves" /\ last.resultsSet
  /\ searchResults # <<>>
  /\ galaxyPoints # <<>>
  /\ FindByText(fitPoints, searchResults[1].text) = None
  /\ ~shouldAnimate /\ controlsEnabled

\* ------------------------------------------------- point set and rotation
\* The point set changes only by a successful generation, which stores at
\* least 3 points, and the brain turns only in a frame that finds no points
PointSetSteps ==
  /\ galaxyPoints' # galaxyPoints
     => (last'.type = "GenerationCompletes" /\ Len(galaxyPoints') >= 3)
  /\ rotationY' # rotationY
     => (last'.type = "Tick" /\ Len(galaxyPoints) = 0)
  /\ Len(galaxyPoints) > 0 => rotationY' = rotationY

\* C33 as stated: the point set is empty until the first successful
\* generation and holds at least 3 points from then on, no step making it
\* smaller; the idle rotation is applied only by a frame that finds the point
\* set empty, so never once there are points.
C33_PointSetNeverShrinks ==
  /\ galaxyPoints = <<>>
  /\ [][ PointSetSteps /\ Len(galaxyPoints') >= Len(galaxyPoints) ]_vars
\* C33, as the code has it: the point set is empty until the first successful
\* generation and holds at least 3 points from then on (a later generation
\* replaces it, by fewer points when it has fewer sentences, never by fewer
\* than 3); the idle rotation is applied only by a frame that finds the point
\* set empty, so never once there are points.
C33_PointSetNeverBelowThree ==
  /\ galaxyPoints = <<>>
  /\ [][ PointSetSteps ]_vars
\* A frame runs with points present and the brain never turned: it does not
\* turn it.
C33_Witness ==
  /\ last.type = "Tick"
  /\ brainObject
  /\ Len(galaxyPoints) >= 3
  /\ rotationY = 0

\* ------------------------------------------------- BackgroundMusic listeners
\* C34: once the cleanup of a run of the effect has run, the playAudio of that
\* run is not a click listener of the document; and while the component is
\* mounted the audio's muted flag is the muted prop.
C34_NoListenerAfterCleanup ==
  /\ \A k \in 1..Len(clickListeners) : ~musicEffects[clickListeners[k]].cleaned
  /\ musicMounted => audioMuted = muted

====
